---- MODULE Spec2Model ----
(***************************************************************************)
(* Model of the Nyrakai word validator (src/tools/validator.py) and of the *)
(* helpers it calls (src/tools/sound_map.py).                              *)
(*                                                                         *)
(* A Python string is a sequence of codepoints.  A codepoint is a TLA+     *)
(* string: an ASCII character stands for itself, any other codepoint is    *)
(* written "Uxxxx" (its hexadecimal number).  A token (phoneme) is a       *)
(* Python string as well, hence a sequence of codepoints.                  *)
(*                                                                         *)
(* The string literals of validator.py are stored in the file as the       *)
(* codepoints written below: what the comments of the file call one letter *)
(* (e.g. the long vowel of 'aa') is a string of two codepoints (U0192      *)
(* U00C5), and the combining forms are strings of four codepoints.         *)
(*                                                                         *)
(* Further down: the lexicon tools of validator.py (edit_distance,         *)
(* check_similarity, check_derived_collisions) and the morpheme analysis   *)
(* of src/tools/sentence-validator.py (strip_suffixes, validate_word) with *)
(* apply_interfix of src/tools/translator.py.  Each group has its own      *)
(* specification (SpecEdit, SpecLex, SpecSent) over the same variables.    *)
(* Last come the loop of syllabify turn by turn (SpecSyl), add_word and    *)
(* the dictionary file (SpecAdd) and the thread pools of                   *)
(* src/tools/batch-generator.py (SpecPool).                                *)
(***************************************************************************)
EXTENDS Integers, Sequences, FiniteSets, TLC

\* ------------------------------------------------------------------ bounds
\* longest input word drawn from Sigma
MaxLen == 3
\* longest variant piece of a ' / ' input
MaxVarLen == 2
\* longest token list handed to validate_syllable
MaxSylLen == 4

\* ------------------------------------------------------- generic helpers
RECURSIVE Concat(_)
\* ''.join(list of strings)
Concat(ss) == IF ss = <<>> THEN <<>> ELSE Head(ss) \o Concat(Tail(ss))

\* s.startswith(p)
StartsWith(s, p) == Len(p) <= Len(s) /\ SubSeq(s, 1, Len(p)) = p

\* Contains with startswith in the place of the substring test
Contains_PrefixOnly(s, p) == StartsWith(s, p)

RECURSIVE Contains(_, _)
\* p in s  (substring test)
Contains(s, p) ==
    IF Len(s) < Len(p) THEN FALSE
    ELSE StartsWith(s, p) \/ Contains(Tail(s), p)

RECURSIVE Replace(_, _, _)
\* s.replace(p, r): leftmost non-overlapping occurrences, p non-empty
Replace(s, p, r) ==
    IF Len(s) < Len(p) THEN s
    ELSE IF StartsWith(s, p) THEN r \o Replace(SubSeq(s, Len(p) + 1, Len(s)), p, r)
    ELSE <<Head(s)>> \o Replace(Tail(s), p, r)

\* str.lower() on one codepoint, for the codepoints of the model
LowerChar(c) ==
    CASE c = "A" -> "a"
      [] c = "D" -> "d"
      [] c = "U00C3" -> "U00E3"
      [] c = "U00C5" -> "U00E5"
      [] c = "U00D1" -> "U00F1"
      [] OTHER -> c

\* str.lower()
Lower(s) == [k \in 1..Len(s) |-> LowerChar(s[k])]

RECURSIVE StripLeft(_)
StripLeft(s) == IF s # <<>> /\ Head(s) = " " THEN StripLeft(Tail(s)) ELSE s

RECURSIVE StripRight(_)
StripRight(s) ==
    IF s # <<>> /\ s[Len(s)] = " " THEN StripRight(SubSeq(s, 1, Len(s) - 1)) ELSE s

\* str.strip()
Strip(s) == StripRight(StripLeft(s))

RECURSIVE SplitFrom(_, _, _)
\* s.split(sep): cur is the piece being read
SplitFrom(s, sep, cur) ==
    IF s = <<>> THEN <<cur>>
    ELSE IF StartsWith(s, sep)
         THEN <<cur>> \o SplitFrom(SubSeq(s, Len(sep) + 1, Len(s)), sep, <<>>)
         ELSE SplitFrom(Tail(s), sep, Append(cur, Head(s)))

Split(s, sep) == SplitFrom(s, sep, <<>>)

\* ------------------------------------------------- the Nyrakai alphabet
CONSONANTS == {<<"d">>, <<"f">>, <<"g">>, <<"h">>, <<"k">>, <<"l">>, <<"m">>,
               <<"n">>, <<"U221A">>, <<"U00B1">>, <<"p">>, <<"r">>, <<"s">>,
               <<"t">>} \cup {<<"U00BB", "U00F5">>, <<"z">>}
VOWELS_SHORT == {<<"a">>, <<"e">>, <<"i">>, <<"o">>, <<"u">>}
VOWELS_LONG == {<<"U0192", "U00C5">>, <<"U0192", "U00EC">>, <<"U0192", "U00B4">>,
                <<"U2248", "U00E7">>, <<"U2248", "U00B4">>}
VOWELS == VOWELS_SHORT \cup VOWELS_LONG
GLIDES == {<<"w">>, <<"y">>}
EJECTIVES == {<<"k", "^">>, <<"p", "^">>, <<"t", "^">>}
AFFRICATES == {<<"U2206", "U00AE">>, <<"U2248", "U00B0">>, <<"U2206", "U2202">>,
               <<"U2248", "U00DF">>}
DIPHTHONGS_SHORT == {<<"U221A", "U00B6">>, <<"U2026", "U00ED">>, <<"U2026", "U00F5">>,
                     <<"U2026", "U00F4">>, <<"U2248", "U00EC">>}
DIPHTHONGS_LONG_COMBINING ==
    {<<"U2026", "U00ED", "U00C3", "U00D1">>, <<"U2026", "U00F5", "U00C3", "U00D1">>,
     <<"U2026", "U00F4", "U00C3", "U00D1">>, <<"U2248", "U00EC", "U00C3", "U00D1">>}
DIPHTHONGS_LONG == {<<"U00AB", "U00A3">>} \cup DIPHTHONGS_LONG_COMBINING
DIPHTHONGS == DIPHTHONGS_SHORT \cup DIPHTHONGS_LONG
GLOTTAL_MARKER == <<"'">>
ALL_VOWELS == VOWELS \cup DIPHTHONGS
ALL_CONSONANTS == CONSONANTS \cup GLIDES \cup AFFRICATES \cup EJECTIVES

ONSET_C1_EXCLUDED == {GLOTTAL_MARKER}
ONSET_C2_EXCLUDED == {<<"p", "'">>, <<"k", "'">>, <<"t", "'">>, <<"U2248", "U00B0">>,
                      <<"U2206", "U00AE">>, <<"U221A", "U00B1">>}
CODA_EXCLUDED == {GLOTTAL_MARKER}

\* VALID_CLUSTERS.get(c1, set())
VALID_CLUSTERS(c1) ==
    CASE c1 = <<"d">> -> {<<"r">>, <<"w">>}
      [] c1 = <<"g">> -> {<<"r">>, <<"l">>, <<"w">>}
      [] c1 = <<"h">> -> {<<"r">>}
      [] c1 = <<"k">> -> {<<"r">>, <<"l">>, <<"w">>}
      [] c1 = <<"p">> -> {<<"r">>, <<"l">>}
      [] c1 = <<"t">> -> {<<"r">>, <<"w">>}
      [] c1 = <<"s">> -> {<<"r">>, <<"l">>, <<"w">>, <<"n">>, <<"m">>, <<"k">>,
                          <<"p">>, <<"t">>}
      [] c1 = <<"z">> -> {<<"r">>, <<"w">>, <<"l">>}
      [] c1 = <<"f">> -> {<<"r">>, <<"l">>}
      [] c1 = <<"U2248", "U00DF">> -> {<<"r">>, <<"w">>}
      [] c1 = <<"U2206", "U2202">> -> {<<"r">>, <<"w">>}
      [] c1 = <<"U00BB", "U00F5">> -> {<<"r">>}
      [] OTHER -> {}

\* the codepoint U+0304
COMBINING_MACRON == "U0304"

\* ---------------------------------------------------------- normalize
DIPHTHONG_MAP ==
    << <<<<"a", "i">>, <<"U221A", "U00B6">>>>,
       <<<<"a", "u">>, <<"U2026", "U00ED">>>>,
       <<<<"e", "i">>, <<"U2026", "U00F5">>>>,
       <<<<"e", "u">>, <<"U2026", "U00F4">>>>,
       <<<<"o", "i">>, <<"U2248", "U00EC">>>>,
       <<<<"U0192", "U00C5", "i">>, <<"U00AB", "U00A3">>>>,
       <<<<"U0192", "U00C5", "u">>, <<"U2026", "U00ED", "U00C3", "U00D1">>>>,
       <<<<"U0192", "U00EC", "i">>, <<"U2026", "U00F5", "U00C3", "U00D1">>>>,
       <<<<"U0192", "U00EC", "u">>, <<"U2026", "U00F4", "U00C3", "U00D1">>>>,
       <<<<"U2248", "U00E7", "i">>, <<"U2248", "U00EC", "U00C3", "U00D1">>>> >>

LONG_VOWEL_MAP ==
    << <<<<"a", "a">>, <<"U0192", "U00C5">>>>,
       <<<<"e", "e">>, <<"U0192", "U00EC">>>>,
       <<<<"i", "i">>, <<"U0192", "U00B4">>>>,
       <<<<"o", "o">>, <<"U2248", "U00E7">>>>,
       <<<<"u", "u">>, <<"U2248", "U00B4">>>> >>

AFFRICATE_MAP ==
    << <<<<"t", "s">>, <<"U2206", "U00AE">>>>,
       <<<<"t", "c", "h">>, <<"U2248", "U00B0">>>>,
       <<<<"d", "z">>, <<"U2206", "U2202">>>>,
       <<<<"t", "r">>, <<"U2248", "U00DF">>>>,
       <<<<"t", "h">>, <<"U00BB", "U00F5">>>> >>

\* sorted(items, key=lambda x: -len(x[0])): stable, the keys have 2 or 3 codepoints
SortByLenDesc(items) ==
    SelectSeq(items, LAMBDA e : Len(e[1]) = 3) \o SelectSeq(items, LAMBDA e : Len(e[1]) = 2)

RECURSIVE ReplaceAll(_, _)
\* for digraph, letter in items: result = result.replace(digraph, letter)
ReplaceAll(s, items) ==
    IF items = <<>> THEN s
    ELSE ReplaceAll(Replace(s, Head(items)[1], Head(items)[2]), Tail(items))

normalize(word) ==
    LET r0 == Lower(word)
        r1 == ReplaceAll(r0, SortByLenDesc(AFFRICATE_MAP))
        r2 == ReplaceAll(r1, SortByLenDesc(LONG_VOWEL_MAP))
    IN  ReplaceAll(r2, SortByLenDesc(DIPHTHONG_MAP))

\* ----------------------------------------------------------- tokenize
\* TokenAt without the glottal-vowel fusion
TokenAt_NeverFuse(w, i) ==
    IF i + 1 <= Len(w) /\ SubSeq(w, i, i + 1) \in EJECTIVES
    THEN [tok |-> SubSeq(w, i, i + 1), adv |-> 2]
    ELSE IF i + 1 <= Len(w) /\ w[i + 1] = COMBINING_MACRON
    THEN [tok |-> SubSeq(w, i, i + 1), adv |-> 2]
    ELSE [tok |-> <<w[i]>>, adv |-> 1]

\* one turn of the while loop of tokenize at position i (1-based) of the
\* lower-cased word: the token appended and the increment of i
TokenAt(w, i) ==
    IF i + 1 <= Len(w) /\ SubSeq(w, i, i + 1) \in EJECTIVES
    THEN [tok |-> SubSeq(w, i, i + 1), adv |-> 2]
    ELSE IF i + 1 <= Len(w) /\ w[i + 1] = COMBINING_MACRON
    THEN [tok |-> SubSeq(w, i, i + 1), adv |-> 2]
    ELSE IF <<w[i]>> = GLOTTAL_MARKER
    THEN IF i + 1 <= Len(w)
         THEN IF <<w[i + 1]>> \in ALL_VOWELS
              THEN [tok |-> <<"'", w[i + 1]>>, adv |-> 2]
              ELSE [tok |-> <<"'">>, adv |-> 1]
         ELSE [tok |-> <<"'">>, adv |-> 1]
    ELSE IF <<w[i]>> \in DIPHTHONGS_LONG \/ <<w[i]>> \in DIPHTHONGS_SHORT
    THEN [tok |-> <<w[i]>>, adv |-> 1]
    ELSE IF <<w[i]>> \in VOWELS_LONG
    THEN [tok |-> <<w[i]>>, adv |-> 1]
    ELSE [tok |-> <<w[i]>>, adv |-> 1]

RECURSIVE TokenizeFrom(_, _, _)
TokenizeFrom(w, i, tokens) ==
    IF i > Len(w) THEN tokens
    ELSE TokenizeFrom(w, i + TokenAt(w, i).adv, Append(tokens, TokenAt(w, i).tok))

tokenize(word) == TokenizeFrom(Lower(word), 1, <<>>)

\* ------------------------------------------------- phoneme classification
is_glottal_vowel(phoneme) ==
    StartsWith(phoneme, <<"'">>) /\ Len(phoneme) = 2 /\ <<phoneme[2]>> \in ALL_VOWELS

is_glottal_coda(phoneme) == phoneme = <<"'">>

is_vowel(phoneme) ==
    phoneme \in ALL_VOWELS \/ is_glottal_vowel(phoneme)
        \/ phoneme \in DIPHTHONGS_LONG_COMBINING

is_consonant(phoneme) ==
    phoneme \in CONSONANTS \/ phoneme \in GLIDES \/ phoneme \in AFFRICATES
        \/ phoneme \in EJECTIVES

\* an error message: its text (kind), the value formatted into it (arg) and
\* the "variant: " prefix put before it by the gender-variant branch
\* (pre = <<variant>>, or <<>> when there is none)
Err(kind, arg) == [kind |-> kind, arg |-> arg, pre |-> <<>>]

\* ----------------------------------------------------------- syllabify
VALID_CLUSTERS_KEYS ==
    {<<"d">>, <<"g">>, <<"h">>, <<"k">>, <<"p">>, <<"t">>, <<"s">>, <<"z">>, <<"f">>,
     <<"U2248", "U00DF">>, <<"U2206", "U2202">>, <<"U00BB", "U00F5">>}

\* SyllableAt that steps over the glottal coda without appending it
SyllableAt_DropGlottal(tokens, i, current) ==
    LET n == Len(tokens)
        cur2 == Append(current, tokens[i])
        glot == i + 1 <= n /\ is_glottal_coda(tokens[i + 1])
        i2 == IF glot THEN i + 1 ELSE i
        coda ==
            IF i2 + 1 <= n /\ is_consonant(tokens[i2 + 1])
            THEN IF i2 + 2 <= n /\ is_vowel(tokens[i2 + 2]) THEN FALSE
                 ELSE IF i2 + 2 <= n /\ is_consonant(tokens[i2 + 2])
                 THEN ~ (tokens[i2 + 1] \in VALID_CLUSTERS_KEYS
                         /\ tokens[i2 + 2] \in VALID_CLUSTERS(tokens[i2 + 1]))
                 ELSE TRUE
            ELSE FALSE
    IN  [syl |-> IF coda THEN Append(cur2, tokens[i2 + 1]) ELSE cur2,
         last |-> IF coda THEN i2 + 1 ELSE i2]

\* the vowel branch of the loop of syllabify at position i: the completed
\* syllable and the position of the last token it took
SyllableAt(tokens, i, current) ==
    LET n == Len(tokens)
        cur1 == Append(current, tokens[i])
        glot == i + 1 <= n /\ is_glottal_coda(tokens[i + 1])
        cur2 == IF glot THEN Append(cur1, tokens[i + 1]) ELSE cur1
        i2 == IF glot THEN i + 1 ELSE i
        coda ==
            IF i2 + 1 <= n /\ is_consonant(tokens[i2 + 1])
            THEN IF i2 + 2 <= n /\ is_vowel(tokens[i2 + 2]) THEN FALSE
                 ELSE IF i2 + 2 <= n /\ is_consonant(tokens[i2 + 2])
                 THEN ~ (tokens[i2 + 1] \in VALID_CLUSTERS_KEYS
                         /\ tokens[i2 + 2] \in VALID_CLUSTERS(tokens[i2 + 1]))
                 ELSE TRUE
            ELSE FALSE
    IN  [syl |-> IF coda THEN Append(cur2, tokens[i2 + 1]) ELSE cur2,
         last |-> IF coda THEN i2 + 1 ELSE i2]

RECURSIVE SyllabifyFrom(_, _, _, _, _)
\* the while loop of syllabify and the handling of the remaining consonants
SyllabifyFrom(tokens, i, current, syllables, errors) ==
    IF i > Len(tokens)
    THEN IF current # <<>>
         THEN IF (\E k \in 1..Len(current) :
                      is_consonant(current[k]) \/ is_glottal_coda(current[k]))
                 /\ ~ (\E k \in 1..Len(current) : is_vowel(current[k]))
              THEN [syllables |-> syllables,
                    errors |-> Append(errors, Err("Syllable without vowel", Concat(current)))]
              ELSE [syllables |-> Append(syllables, current), errors |-> errors]
         ELSE [syllables |-> syllables, errors |-> errors]
    ELSE IF is_vowel(tokens[i])
    THEN LET s == SyllableAt(tokens, i, current)
         IN  SyllabifyFrom(tokens, s.last + 1, <<>>, Append(syllables, s.syl), errors)
    ELSE IF is_consonant(tokens[i])
    THEN SyllabifyFrom(tokens, i + 1, Append(current, tokens[i]), syllables, errors)
    ELSE IF is_glottal_coda(tokens[i])
    THEN SyllabifyFrom(tokens, i + 1, current, syllables,
                       Append(errors, Err("Unexpected glottal marker position", tokens[i])))
    ELSE SyllabifyFrom(tokens, i + 1, current, syllables,
                       Append(errors, Err("Unknown token", tokens[i])))

syllabify(tokens) ==
    IF tokens = <<>>
    THEN [syllables |-> <<>>, errors |-> <<Err("Empty word", <<>>)>>]
    ELSE SyllabifyFrom(tokens, 1, <<>>, <<>>, <<>>)

\* ---------------------------------------------------- validate_syllable
RECURSIVE SplitSyllable(_, _, _, _)
\* the for loop of validate_syllable: tokens before the first vowel go to the
\* onset; at the first vowel the rest is read for the coda and the loop breaks
SplitSyllable(syllable, i, onset, found_vowel) ==
    IF i > Len(syllable)
    THEN [onset |-> onset, nucleus |-> <<>>, glottal_coda |-> FALSE, coda |-> <<>>,
          errors |-> <<>>]
    ELSE IF is_vowel(syllable[i])
    THEN LET rest == SubSeq(syllable, i + 1, Len(syllable))
         IN  [onset |-> onset,
              nucleus |-> <<syllable[i]>>,
              glottal_coda |-> \E k \in 1..Len(rest) : is_glottal_coda(rest[k]),
              coda |-> SelectSeq(rest, LAMBDA t : ~ is_glottal_coda(t) /\ is_consonant(t)),
              errors |-> IF found_vowel
                         THEN <<Err("Multiple vowels in syllable", Concat(syllable))>>
                         ELSE <<>>]
    ELSE SplitSyllable(syllable, i + 1, Append(onset, syllable[i]), found_vowel)

\* SyllableChecks without the exemption of ejective and affricate first members
SyllableChecks_NoExemption(onset, coda) ==
    (IF Len(onset) > 2
     THEN <<Err("Too many onset consonants", Concat(onset))>> ELSE <<>>)
    \o (IF Len(coda) > 1
        THEN <<Err("Too many coda consonants", Concat(coda))>> ELSE <<>>)
    \o (IF Len(onset) >= 1 /\ onset[1] \in ONSET_C1_EXCLUDED
        THEN <<Err("cannot be first consonant in onset", onset[1])>> ELSE <<>>)
    \o (IF Len(onset) >= 2 /\ onset[2] \in ONSET_C2_EXCLUDED
        THEN <<Err("cannot be second consonant in cluster", onset[2])>> ELSE <<>>)
    \o (IF Len(onset) = 2
           /\ (onset[1] \notin VALID_CLUSTERS_KEYS \/ onset[2] \notin VALID_CLUSTERS(onset[1]))
        THEN <<Err("Invalid consonant cluster", onset[1] \o onset[2])>> ELSE <<>>)
    \o (IF Len(coda) >= 1 /\ coda[1] \in CODA_EXCLUDED
        THEN <<Err("cannot be in coda", coda[1])>> ELSE <<>>)

\* the checks of validate_syllable that follow the structure string, in order
SyllableChecks(onset, coda) ==
    (IF Len(onset) > 2
     THEN <<Err("Too many onset consonants", Concat(onset))>> ELSE <<>>)
    \o (IF Len(coda) > 1
        THEN <<Err("Too many coda consonants", Concat(coda))>> ELSE <<>>)
    \o (IF Len(onset) >= 1 /\ onset[1] \in ONSET_C1_EXCLUDED
        THEN <<Err("cannot be first consonant in onset", onset[1])>> ELSE <<>>)
    \o (IF Len(onset) >= 2 /\ onset[2] \in ONSET_C2_EXCLUDED
        THEN <<Err("cannot be second consonant in cluster", onset[2])>> ELSE <<>>)
    \o (IF Len(onset) = 2
           /\ (onset[1] \notin VALID_CLUSTERS_KEYS \/ onset[2] \notin VALID_CLUSTERS(onset[1]))
           /\ onset[1] \notin EJECTIVES /\ onset[1] \notin AFFRICATES
        THEN <<Err("Invalid consonant cluster", onset[1] \o onset[2])>> ELSE <<>>)
    \o (IF Len(coda) >= 1 /\ coda[1] \in CODA_EXCLUDED
        THEN <<Err("cannot be in coda", coda[1])>> ELSE <<>>)

\* "C" * n
Cs(n) == [k \in 1..n |-> "C"]

validate_syllable(syllable) ==
    LET p == SplitSyllable(syllable, 1, <<>>, FALSE)
    IN  IF p.nucleus = <<>>
        THEN [valid |-> FALSE, structure |-> <<>>,
              errors |-> p.errors \o <<Err("No vowel in syllable", Concat(syllable))>>]
        ELSE LET errors == p.errors \o SyllableChecks(p.onset, p.coda)
             IN  [valid |-> Len(errors) = 0,
                  structure |-> Cs(Len(p.onset)) \o <<"V">>
                                \o (IF p.glottal_coda THEN <<"'">> ELSE <<>>)
                                \o Cs(Len(p.coda)),
                  errors |-> errors]

\* -------------------------------------------------------- validate_word
\* None
None == "None"

\* word_exists_in_dictionary, over the module-level dict _NYR_TO_ENG (a
\* function from Nyrakai strings to English meanings)
word_exists_in_dictionary(nyrakai, nyr_to_eng) ==
    IF nyrakai \in DOMAIN nyr_to_eng THEN <<TRUE, nyr_to_eng[nyrakai]>>
    ELSE IF Lower(nyrakai) \in DOMAIN nyr_to_eng THEN <<TRUE, nyr_to_eng[Lower(nyrakai)]>>
    ELSE <<FALSE, None>>

\* sound_map.py is importable next to validator.py
SOUND_MAP_AVAILABLE == TRUE

\* the set all_valid of validate_word
ALL_VALID == CONSONANTS \cup VOWELS \cup GLIDES \cup AFFRICATES \cup DIPHTHONGS \cup EJECTIVES

\* the phoneme loop of validate_word: one error per token that is not allowed
PhonemeErrors(tokens) ==
    LET bad == SelectSeq(tokens, LAMBDA t :
                   ~ is_glottal_vowel(t) /\ ~ is_glottal_coda(t)
                   /\ t \notin DIPHTHONGS_LONG_COMBINING /\ t \notin ALL_VALID)
    IN  [k \in 1..Len(bad) |-> Err("Invalid phoneme", bad[k])]

\* SyllableErrors of a loop that never extends the errors
SyllableErrors_Dropped(syllables) == <<>>

RECURSIVE SyllableErrors(_)
\* the errors of the invalid syllables, in order
SyllableErrors(syllables) ==
    IF syllables = <<>> THEN <<>>
    ELSE (IF validate_syllable(Head(syllables)).valid THEN <<>>
          ELSE validate_syllable(Head(syllables)).errors)
         \o SyllableErrors(Tail(syllables))

\* The result dict.  Keys that validate_word sets only on some paths are
\* modelled by a presence value: has_domain stands for the three keys onset,
\* primary_domain and secondary_domain; exists_in_dictionary is "absent" when
\* the key is not set; is_variant is FALSE when the key is not set.
Result(word, normalized, warnings, phonemes) ==
    [word |-> word, normalized |-> normalized, valid |-> TRUE, errors |-> <<>>,
     warnings |-> warnings, syllables |-> <<>>, syllable_structures |-> <<>>,
     phonemes |-> phonemes, is_variant |-> FALSE, has_domain |-> FALSE,
     exists_in_dictionary |-> "absent", existing_meaning |-> None]

\* AnnotateExists that rejects a word already in the dictionary
AnnotateExists_AsError(result, normalized, nyr_to_eng) ==
    LET ex == word_exists_in_dictionary(normalized, nyr_to_eng)
    IN  IF ex[1]
        THEN [result EXCEPT !.exists_in_dictionary = "True",
                            !.existing_meaning = ex[2],
                            !.valid = FALSE,
                            !.errors = Append(@, Err("Word already exists", normalized))]
        ELSE [result EXCEPT !.exists_in_dictionary = "False"]

\* the dictionary check that ends validate_word
AnnotateExists(result, normalized, nyr_to_eng) ==
    LET ex == word_exists_in_dictionary(normalized, nyr_to_eng)
    IN  IF ex[1]
        THEN [result EXCEPT !.exists_in_dictionary = "True",
                            !.existing_meaning = ex[2],
                            !.warnings = Append(@, Err("Word already exists", normalized))]
        ELSE [result EXCEPT !.exists_in_dictionary = "False"]

\* ValidatePlain that goes on to the structural checks after an invalid phoneme
ValidatePlain_NoShortCircuit(word, auto_normalize, nyr_to_eng) ==
    LET normalized == IF auto_normalize THEN normalize(word) ELSE Lower(word)
        warnings == IF normalized # Lower(word)
                    THEN <<Err("Auto-normalized", normalized)>> ELSE <<>>
        tokens == tokenize(normalized)
        result == Result(word, normalized, warnings, tokens)
        sy == syllabify(tokens)
        vs == [k \in 1..Len(sy.syllables) |-> validate_syllable(sy.syllables[k])]
    IN  IF Contains(normalized, <<"^", "'">>)
        THEN [result EXCEPT !.valid = FALSE,
                 !.errors = <<Err("Ejective marker ^ cannot precede glottal marker '", <<>>)>>]
        ELSE IF Contains(normalized, <<"'", "a">>)
        THEN [result EXCEPT !.valid = FALSE,
                 !.errors = <<Err("Glottal marker ' cannot precede 'a'", <<>>)>>]
        ELSE IF sy.errors # <<>>
        THEN [result EXCEPT !.valid = FALSE, !.errors = PhonemeErrors(tokens) \o sy.errors]
        ELSE AnnotateExists(
                 [result EXCEPT
                     !.valid = PhonemeErrors(tokens) = <<>> /\ \A k \in 1..Len(vs) : vs[k].valid,
                     !.errors = PhonemeErrors(tokens) \o SyllableErrors(sy.syllables),
                     !.syllables = [k \in 1..Len(vs) |-> Concat(sy.syllables[k])],
                     !.syllable_structures = [k \in 1..Len(vs) |-> vs[k].structure],
                     !.has_domain = SOUND_MAP_AVAILABLE],
                 normalized, nyr_to_eng)

\* validate_word for a word without ' / '
ValidatePlain(word, auto_normalize, nyr_to_eng) ==
    LET normalized == IF auto_normalize THEN normalize(word) ELSE Lower(word)
        warnings == IF normalized # Lower(word)
                    THEN <<Err("Auto-normalized", normalized)>> ELSE <<>>
        tokens == tokenize(normalized)
        result == Result(word, normalized, warnings, tokens)
        sy == syllabify(tokens)
        vs == [k \in 1..Len(sy.syllables) |-> validate_syllable(sy.syllables[k])]
    IN  IF Contains(normalized, <<"^", "'">>)
        THEN [result EXCEPT !.valid = FALSE,
                 !.errors = <<Err("Ejective marker ^ cannot precede glottal marker '", <<>>)>>]
        ELSE IF Contains(normalized, <<"'", "a">>)
        THEN [result EXCEPT !.valid = FALSE,
                 !.errors = <<Err("Glottal marker ' cannot precede 'a'", <<>>)>>]
        ELSE IF PhonemeErrors(tokens) # <<>>
        THEN [result EXCEPT !.valid = FALSE, !.errors = PhonemeErrors(tokens)]
        ELSE IF sy.errors # <<>>
        THEN [result EXCEPT !.valid = FALSE, !.errors = sy.errors]
        ELSE AnnotateExists(
                 [result EXCEPT
                     !.valid = \A k \in 1..Len(vs) : vs[k].valid,
                     !.errors = SyllableErrors(sy.syllables),
                     !.syllables = [k \in 1..Len(vs) |-> Concat(sy.syllables[k])],
                     !.syllable_structures = [k \in 1..Len(vs) |-> vs[k].structure],
                     !.has_domain = SOUND_MAP_AVAILABLE],
                 normalized, nyr_to_eng)

RECURSIVE JoinWith(_, _)
\* sep.join(parts)
JoinWith(parts, sep) ==
    IF parts = <<>> THEN <<>>
    ELSE IF Len(parts) = 1 THEN parts[1]
    ELSE parts[1] \o sep \o JoinWith(Tail(parts), sep)

\* [f"{variant}: {e}" for e in errors]
Prefixed(variant, errors) == [k \in 1..Len(errors) |-> [errors[k] EXCEPT !.pre = <<variant>>]]

RECURSIVE VariantErrors(_, _, _)
RECURSIVE VariantPhonemes(_, _, _)
RECURSIVE validate_word(_, _, _)

RECURSIVE VariantErrors_NoPrefix(_, _, _)
\* VariantErrors that leaves out the "variant: " prefix
VariantErrors_NoPrefix(variants, auto_normalize, nyr_to_eng) ==
    IF variants = <<>> THEN <<>>
    ELSE LET v_result == validate_word(Head(variants), auto_normalize, nyr_to_eng)
         IN  (IF ~ v_result.valid THEN v_result.errors ELSE <<>>)
             \o VariantErrors_NoPrefix(Tail(variants), auto_normalize, nyr_to_eng)

\* all_errors of the gender-variant loop
VariantErrors(variants, auto_normalize, nyr_to_eng) ==
    IF variants = <<>> THEN <<>>
    ELSE LET v_result == validate_word(Head(variants), auto_normalize, nyr_to_eng)
         IN  (IF ~ v_result.valid THEN Prefixed(Head(variants), v_result.errors) ELSE <<>>)
             \o VariantErrors(Tail(variants), auto_normalize, nyr_to_eng)

\* all_phonemes of the gender-variant loop
VariantPhonemes(variants, auto_normalize, nyr_to_eng) ==
    IF variants = <<>> THEN <<>>
    ELSE validate_word(Head(variants), auto_normalize, nyr_to_eng).phonemes
         \o VariantPhonemes(Tail(variants), auto_normalize, nyr_to_eng)

validate_word(word, auto_normalize, nyr_to_eng) ==
    IF Contains(word, <<" ", "/", " ">>)
    THEN LET pieces == Split(word, <<" ", "/", " ">>)
             variants == [k \in 1..Len(pieces) |-> Strip(pieces[k])]
         IN  [Result(word, word,
                     <<Err("Gender variants", JoinWith(variants, <<" ", "/", " ">>))>>,
                     VariantPhonemes(variants, auto_normalize, nyr_to_eng))
              EXCEPT !.valid = \A k \in 1..Len(variants) :
                                  validate_word(variants[k], auto_normalize, nyr_to_eng).valid,
                     !.errors = VariantErrors(variants, auto_normalize, nyr_to_eng),
                     !.syllables = variants,
                     !.is_variant = TRUE]
    ELSE ValidatePlain(word, auto_normalize, nyr_to_eng)

\* ------------------------------------------------------------- inputs
\* the most normalize calls made in a row on one string
MaxPasses == 2

\* codepoints of the input words
Sigma == {"a", "i", "d", "r", "t", "^", "'", "x", "U0304"}

\* codepoints of the pieces of a ' / ' input
VarSigma == {"a", "x", " "}

\* tokens of the lists handed to validate_syllable
SylTokens == {<<"d">>, <<"r">>, <<"a">>, <<"'">>, <<"x">>, <<"t", "^">>, <<"U2248", "U00DF">>}

\* sequences over S of length at most n
SeqsUpTo(S, n) == UNION {[1..k -> S] : k \in 0..n}

Words == SeqsUpTo(Sigma, MaxLen)

VariantWords ==
    {a \o <<" ", "/", " ">> \o b : a \in SeqsUpTo(VarSigma, MaxVarLen),
                                  b \in SeqsUpTo(VarSigma, MaxVarLen)}

\* words with three consonants between two vowels, each neighbouring pair a
\* Cluster Table entry
ClusterWords == {<<"a", "s", "k", "r", "a">>, <<"a", "s", "k", "w", "a">>}

Syllables == SeqsUpTo(SylTokens, MaxSylLen)

\* contents of _NYR_TO_ENG after the import of validator.py
Lexicons == {<<>>, (<<"d", "a">> :> "give") @@ (<<"a">> :> "over")}

\* --------------------------------------------------------- state machine
VARIABLES
    word,        \* the string given to the function under call
    syllable,    \* the token list given to validate_syllable
    nyr_to_eng,  \* validator._NYR_TO_ENG
    pc,          \* which call is in progress or has returned
    text,        \* normalize: the string after the calls so far; tokenize: the lower-cased word
    passes,      \* number of normalize calls made on text
    i,           \* tokenize: the scan position (1-based)
    tokens,      \* tokenize: the tokens so far; syllabify: its argument
    syl_out,     \* what syllabify returned
    syl_check,   \* what validate_syllable returned
    auto,        \* the auto_normalize argument of the validate_word call
    result,      \* what validate_word returned
    s1,          \* edit_distance: first string; apply_interfix: base
    s2,          \* edit_distance: second string; apply_interfix: suffix
    s3,          \* edit_distance: third string of a triple
    dictionary,  \* load_dictionary()['words'], or the sentence validator's word set
    threshold,   \* the threshold argument of check_similarity
    out,         \* what the lexicon tool, sentence-validator or add_word call returned
    threads,     \* the tasks of the thread pool: one record per submitted word
    batch,       \* parallel_validate: its position and its results dict
    adds         \* number of add_word calls made in this process

toolVars == <<s1, s2, s3, dictionary, threshold, out>>

parVars == <<threads, batch, adds>>

\* no parallel_validate or parallel_generate call
NoBatch ==
    [pc |-> "none", fn |-> "none", words |-> <<>>, valid |-> <<>>, invalid |-> <<>>,
     generated |-> <<>>, errors |-> <<>>]

\* no thread pool and no add_word call in this run
ParIdle == threads = <<>> /\ batch = NoBatch /\ adds = <<>>

vars == <<word, syllable, nyr_to_eng, pc, text, passes, i, tokens, syl_out, syl_check, auto, result,
          toolVars, parVars>>

Init ==
    /\ \/ word \in Words \cup VariantWords \cup ClusterWords /\ syllable = <<>> /\ pc = "ready"
          /\ nyr_to_eng \in Lexicons
       \/ syllable \in Syllables /\ word = <<>> /\ pc = "syllable"
          /\ nyr_to_eng = <<>>
    /\ text = word
    /\ passes = 0
    /\ i = 1
    /\ tokens = <<>>
    /\ syl_out = None
    /\ syl_check = None
    /\ auto = TRUE
    /\ result = None
    /\ s1 = <<>> /\ s2 = <<>> /\ s3 = <<>>
    /\ dictionary = <<>>
    /\ threshold = 2
    /\ out = None
    /\ ParIdle

\* normalize(text), on the input word and again on its own output
Normalize ==
    /\ pc \in {"ready", "normalized"}
    /\ passes < MaxPasses
    /\ text' = normalize(text)
    /\ passes' = passes + 1
    /\ pc' = "normalized"
    /\ UNCHANGED <<word, syllable, nyr_to_eng, i, tokens, syl_out, syl_check, auto, result>>
    /\ UNCHANGED toolVars
    /\ UNCHANGED parVars

\* tokenize(word): entry, up to the while loop
TokenizeCall ==
    /\ pc = "ready"
    /\ text' = Lower(word)
    /\ i' = 1
    /\ tokens' = <<>>
    /\ pc' = "tokenize"
    /\ UNCHANGED <<word, syllable, nyr_to_eng, passes, syl_out, syl_check, auto, result>>
    /\ UNCHANGED toolVars
    /\ UNCHANGED parVars

\* one turn of the while loop of tokenize
TokenizeStep ==
    /\ pc = "tokenize"
    /\ i <= Len(text)
    /\ tokens' = Append(tokens, TokenAt(text, i).tok)
    /\ i' = i + TokenAt(text, i).adv
    /\ UNCHANGED <<word, syllable, nyr_to_eng, pc, text, passes, syl_out, syl_check, auto, result>>
    /\ UNCHANGED toolVars
    /\ UNCHANGED parVars

\* tokenize: the loop ends and the tokens are returned
TokenizeReturn ==
    /\ pc = "tokenize"
    /\ i > Len(text)
    /\ pc' = "tokenized"
    /\ UNCHANGED <<word, syllable, nyr_to_eng, text, passes, i, tokens, syl_out, syl_check, auto, result>>
    /\ UNCHANGED toolVars
    /\ UNCHANGED parVars

\* syllabify(tokenize(normalize(word)))
Syllabify ==
    /\ pc = "ready"
    /\ tokens' = tokenize(normalize(word))
    /\ syl_out' = syllabify(tokens')
    /\ pc' = "syllabified"
    /\ UNCHANGED <<word, syllable, nyr_to_eng, text, passes, i, syl_check, auto, result>>
    /\ UNCHANGED toolVars
    /\ UNCHANGED parVars

\* validate_syllable(syllable)
ValidateSyllable ==
    /\ pc = "syllable"
    /\ syl_check' = validate_syllable(syllable)
    /\ pc' = "checked"
    /\ UNCHANGED <<word, syllable, nyr_to_eng, text, passes, i, tokens, syl_out, auto, result>>
    /\ UNCHANGED toolVars
    /\ UNCHANGED parVars

\* validate_word(word, auto_normalize)
ValidateWord ==
    /\ pc = "ready"
    /\ \E auto_normalize \in BOOLEAN :
           /\ auto' = auto_normalize
           /\ result' = validate_word(word, auto_normalize, nyr_to_eng)
    /\ pc' = "validated"
    /\ UNCHANGED <<word, syllable, nyr_to_eng, text, passes, i, tokens, syl_out, syl_check>>
    /\ UNCHANGED toolVars
    /\ UNCHANGED parVars

Next ==
    \/ Normalize
    \/ TokenizeCall
    \/ TokenizeStep
    \/ TokenizeReturn
    \/ Syllabify
    \/ ValidateSyllable
    \/ ValidateWord

Spec == Init /\ [][Next]_vars

\* ------------------------------------------------------- edit_distance

MaxEditLen == 3

Min3(x, y, z) == IF x <= y /\ x <= z THEN x ELSE IF y <= z THEN y ELSE z

\* substitution always costs 1, also between equal characters
SubstCost_AlwaysOne(c1, c2) == 1

\* (c1 != c2) of the substitutions line: 1 for different characters, else 0
SubstCost(c1, c2) == IF c1 /= c2 THEN 1 ELSE 0

\* prev_row = range(len(s2) + 1)
InitialRow(t) == [k \in 1..(Len(t) + 1) |-> k - 1]

\* the substitutions term leaves out prev_row[j]
RECURSIVE CurrRow_NoCarry(_, _, _, _)
CurrRow_NoCarry(prev_row, c1, t, curr_row) ==
    LET j == Len(curr_row)
    IN  IF j > Len(t) THEN curr_row
        ELSE LET insertions    == prev_row[j + 1] + 1
                 deletions     == curr_row[j] + 1
                 substitutions == SubstCost(c1, t[j])
             IN  CurrRow_NoCarry(prev_row, c1, t,
                                 Append(curr_row, Min3(insertions, deletions, substitutions)))

\* the inner loop over s2: curr_row grows by one entry per character of s2
RECURSIVE CurrRow(_, _, _, _)
CurrRow(prev_row, c1, t, curr_row) ==
    LET j == Len(curr_row)
    IN  IF j > Len(t) THEN curr_row
        ELSE LET insertions    == prev_row[j + 1] + 1
                 deletions     == curr_row[j] + 1
                 substitutions == prev_row[j] + SubstCost(c1, t[j])
             IN  CurrRow(prev_row, c1, t,
                         Append(curr_row, Min3(insertions, deletions, substitutions)))

\* the outer loop over s1 from its k-th character on; the last row
RECURSIVE LastRow(_, _, _, _)
LastRow(prev_row, s, t, k) ==
    IF k > Len(s) THEN prev_row
    ELSE LastRow(CurrRow(prev_row, s[k], t, <<k>>), s, t, k + 1)

\* the swapping call passes its second argument twice
RECURSIVE edit_distance_SwapTypo(_, _)
edit_distance_SwapTypo(s, t) ==
    IF Len(s) < Len(t) THEN edit_distance_SwapTypo(t, t)
    ELSE IF Len(t) = 0 THEN Len(s)
    ELSE LET row == LastRow(InitialRow(t), s, t, 1) IN row[Len(row)]

RECURSIVE edit_distance(_, _)
edit_distance(s, t) ==
    IF Len(s) < Len(t) THEN edit_distance(t, s)
    ELSE IF Len(t) = 0 THEN Len(s)
    ELSE LET row == LastRow(InitialRow(t), s, t, 1) IN row[Len(row)]

EditSigma == {"a", "d"}

EditStrings == SeqsUpTo(EditSigma, MaxEditLen)

InitEdit ==
    /\ s1 \in EditStrings /\ s2 \in EditStrings /\ s3 \in EditStrings
    /\ pc = "edit"
    /\ out = None
    /\ word = <<>> /\ syllable = <<>> /\ nyr_to_eng = <<>> /\ text = <<>>
    /\ passes = 0 /\ i = 1 /\ tokens = <<>> /\ syl_out = None /\ syl_check = None
    /\ auto = TRUE /\ result = None
    /\ dictionary = <<>> /\ threshold = 2
    /\ ParIdle

\* edit_distance on the pairs of the triple (s1, s2, s3), both ways round
EditDistance ==
    /\ pc = "edit"
    /\ out' = [ab |-> edit_distance(s1, s2), ba |-> edit_distance(s2, s1),
               bc |-> edit_distance(s2, s3), ac |-> edit_distance(s1, s3)]
    /\ pc' = "measured"
    /\ UNCHANGED <<word, syllable, nyr_to_eng, text, passes, i, tokens, syl_out, syl_check,
                   auto, result, s1, s2, s3, dictionary, threshold>>
    /\ UNCHANGED parVars

NextEdit == EditDistance

SpecEdit == InitEdit /\ [][NextEdit]_vars

\* ------------------------------------------------------- check_similarity
\* A lexicon entry is a record [nyrakai, english, is_root, derived_from];
\* derived_from is <<>> (None) or <<[root, affix]>>.

\* [v.strip() for v in existing.split(' / ')], or [existing]
VariantsOf(existing) ==
    IF Contains(existing, <<" ", "/", " ">>)
    THEN LET parts == Split(existing, <<" ", "/", " ">>)
         IN  [k \in 1..Len(parts) |-> Strip(parts[k])]
    ELSE <<existing>>

\* the test that appends a variant, without the two length conditions
IsSimilar_NoLengthTest(normalized, variant, thr) ==
    /\ variant /= normalized
    /\ edit_distance(normalized, variant) <= thr

\* the test that appends a variant to similar: not the exact match, within
\* the threshold, and both strings longer than 2
IsSimilar(normalized, variant, thr) ==
    /\ variant /= normalized
    /\ edit_distance(normalized, variant) <= thr
    /\ Len(normalized) > 2
    /\ Len(variant) > 2

\* the inner loop: the matches among the variants of one entry
SimilarOfEntry(normalized, w, thr) ==
    LET variants == VariantsOf(w.nyrakai)
        hits == SelectSeq(variants, LAMBDA v : IsSimilar(normalized, v, thr))
    IN  [k \in 1..Len(hits) |-> [word |-> hits[k], meaning |-> w.english,
                                 distance |-> edit_distance(normalized, hits[k])]]

\* the outer loop over dictionary["words"]
RECURSIVE SimilarOf(_, _, _)
SimilarOf(normalized, words, thr) ==
    IF words = <<>> THEN <<>>
    ELSE SimilarOfEntry(normalized, Head(words), thr) \o SimilarOf(normalized, Tail(words), thr)

\* similar.sort(key=distance): stable, ascending from distance d on
RECURSIVE SortByDistance(_, _, _)
SortByDistance(similar, d, dmax) ==
    IF d > dmax THEN <<>>
    ELSE SelectSeq(similar, LAMBDA s : s.distance = d) \o SortByDistance(similar, d + 1, dmax)

check_similarity(w, thr, words) ==
    LET normalized == normalize(w)
        similar == SimilarOf(normalized, words, thr)
        sorted == SortByDistance(similar, 0, thr)
    IN  [word |-> w,
         normalized |-> normalized,
         similar_count |-> Len(sorted),
         similar_words |-> sorted,
         has_conflicts |-> \E k \in 1..Len(sorted) : sorted[k].distance = 1]

\* ------------------------------------------------- check_derived_collisions
\* AFFIXES['prefixes'] and AFFIXES['suffixes'], the keys in dictionary order
PREFIXES == << <<"z", "a">>, <<"f", "U0192", "U00EC">>, <<"n", "'">> >>

SUFFIXES ==
    << <<"r", "a">>, <<"U2206", "U00AE", "u">>, <<"U00BB", "U00F5", "a", "l">>,
       <<"k", "^", "e">>, <<"U221A", "U00B1", "o", "r">>, <<"U2026", "U00F5", "m">>,
       <<"r", "a", "U2248", "U00B0">>, <<"b", "r", "e", "n">>,
       <<"U00BB", "U00F5", "U221A", "U00B6", "l">>, <<"U2248", "U00B0", "e", "k">>,
       <<"r", "a", "u", "n">>, <<"k", "^", "U221A", "U00B6", "U00BB", "U00F5">>,
       <<"U221A", "U00B6", "n">>, <<"U221A", "U00B1", "U0192", "U00B4">>,
       <<"a", "U221A", "U00B1", "U0192", "U00B4">>, <<"U2248", "U00EC">>,
       <<"U0192", "U00C5">>, <<"r", "i">>, <<"r", "U0192", "U00C5">> >>

\* existing_words[k] = v on a dict held as a function
Put(m, k, v) == [x \in (DOMAIN m) \cup {k} |-> IF x = k THEN v ELSE m[x]]

RECURSIVE PutAll(_, _, _)
PutAll(m, ks, v) == IF ks = <<>> THEN m ELSE PutAll(Put(m, Head(ks), v), Tail(ks), v)

\* the first loop: word -> [meaning, derived_from, is_variant]; a later entry
\* with the same surface form replaces an earlier one
RECURSIVE ExistingWords(_, _)
ExistingWords(words, m) ==
    IF words = <<>> THEN m
    ELSE LET entry == Head(words)
             nyr == entry.nyrakai
             m1 == IF Contains(nyr, <<" ", "/", " ">>)
                   THEN PutAll(m, VariantsOf(nyr),
                               [meaning |-> entry.english,
                                derived_from |-> entry.derived_from, is_variant |-> TRUE])
                   ELSE Put(m, nyr, [meaning |-> entry.english,
                                     derived_from |-> entry.derived_from,
                                     is_variant |-> FALSE])
         IN  ExistingWords(Tail(words), m1)

\* if is_root and nyr and ' / ' not in nyr: roots.append(...)
RootsOf(words) ==
    SelectSeq(words, LAMBDA e : /\ e.is_root
                                /\ e.nyrakai /= <<>>
                                /\ ~ Contains(e.nyrakai, <<" ", "/", " ">>))

\* the prefix loop is left out
Derivations_SuffixOnly(root) ==
    [k \in 1..Len(SUFFIXES) |->
        [type |-> "suffix", root |-> root.nyrakai, root_meaning |-> root.english,
         affix |-> SUFFIXES[k], derived |-> root.nyrakai \o SUFFIXES[k]]]

\* the forms synthesized from one root: every prefix + root, then every root + suffix
Derivations(root) ==
    [k \in 1..Len(PREFIXES) |->
        [type |-> "prefix", root |-> root.nyrakai, root_meaning |-> root.english,
         affix |-> PREFIXES[k], derived |-> PREFIXES[k] \o root.nyrakai]]
    \o
    [k \in 1..Len(SUFFIXES) |->
        [type |-> "suffix", root |-> root.nyrakai, root_meaning |-> root.english,
         affix |-> SUFFIXES[k], derived |-> root.nyrakai \o SUFFIXES[k]]]

RECURSIVE AllDerivations(_)
AllDerivations(roots) ==
    IF roots = <<>> THEN <<>> ELSE Derivations(Head(roots)) \o AllDerivations(Tail(roots))

\* derived in existing_words and existing_words[derived]["meaning"] != eng
IsHit(d, existing_words) ==
    /\ d.derived \in DOMAIN existing_words
    /\ existing_words[d.derived].meaning /= d.root_meaning

\* a gender-variant target counts for nothing: the recorded affix must match
IsIntentional_AffixOnly(d, existing_words) ==
    LET df == existing_words[d.derived].derived_from
    IN  /\ df /= <<>>
        /\ df[1].root = d.root
        /\ df[1].affix = d.affix

\* df and df.get("root") == nyr and (df.get("affix") == affix or is_variant)
IsIntentional(d, existing_words) ==
    LET df == existing_words[d.derived].derived_from
        is_variant == existing_words[d.derived].is_variant
    IN  /\ df /= <<>>
        /\ df[1].root = d.root
        /\ (df[1].affix = d.affix \/ is_variant)

\* collision_data of one hit
CollisionData(d, existing_words) ==
    [type |-> d.type, root |-> d.root, root_meaning |-> d.root_meaning, affix |-> d.affix,
     derived |-> d.derived, collides_with |-> existing_words[d.derived].meaning]

check_derived_collisions(words) ==
    LET existing_words == ExistingWords(words, <<>>)
        roots == RootsOf(words)
        all == AllDerivations(roots)
        hits == SelectSeq(all, LAMBDA d : IsHit(d, existing_words))
        collisions == SelectSeq(hits, LAMBDA d : ~ IsIntentional(d, existing_words))
        intentional == SelectSeq(hits, LAMBDA d : IsIntentional(d, existing_words))
    IN  [total_roots |-> Len(roots),
         total_derivations |-> Len(all),
         collision_count |-> Len(collisions),
         collisions |-> [k \in 1..Len(collisions) |-> CollisionData(collisions[k], existing_words)],
         intentional_count |-> Len(intentional),
         intentional |-> [k \in 1..Len(intentional) |-> CollisionData(intentional[k], existing_words)]]

\* ------------------------------------------- the lexicons of the two tools
MaxEntries == 2

MaxSimLen == 3

Entry(nyr, eng, root, df) ==
    [nyrakai |-> nyr, english |-> eng, is_root |-> root, derived_from |-> df]

\* surface forms of the lexicons given to check_similarity
SimForms == {<<"d", "a">>, <<"d", "a", "d">>, <<"d", "d", "a">>, <<"a", "d", "d", "a">>,
             <<"d", "a", "d", " ", "/", " ", "a", "d">>,
             <<"a", "d", "a", " ", "/", " ", "a", "d", "d">>}

SimEntries == {Entry(f, "gloss", TRUE, <<>>) : f \in SimForms}

SimWords == SeqsUpTo({"a", "d"}, MaxSimLen)

Thresholds == 0..2

\* entries of the lexicons given to check_derived_collisions: the root 'da',
\* forms that an affix makes of it, with and without provenance
X == <<"d", "a">>

Provenances ==
    {<<>>, <<[root |-> X, affix |-> <<"z", "a">>]>>, <<[root |-> X, affix |-> <<"r", "i">>]>>,
     <<[root |-> <<"d">>, affix |-> <<"z", "a">>]>>}

CollEntries ==
    {Entry(X, "give", r, <<>>) : r \in BOOLEAN}
    \cup {Entry(<<"z", "a">> \o X, e, r, df) :
             e \in {"give", "refuse"}, r \in BOOLEAN, df \in Provenances}
    \cup {Entry(X \o <<"r", "i", " ", "/", " ">> \o X \o <<"r", "U0192", "U00C5">>, "givers", FALSE, df) :
             df \in Provenances}
    \cup {Entry(X \o <<"r", "a">>, "gift", FALSE, df) : df \in Provenances}

InitLex ==
    /\ \/ /\ pc = "similarity"
          /\ word \in SimWords
          /\ dictionary \in SeqsUpTo(SimEntries, MaxEntries)
       \/ /\ pc = "collisions"
          /\ word = <<>>
          /\ dictionary \in SeqsUpTo(CollEntries, MaxEntries)
    /\ threshold = 2
    /\ out = None
    /\ s1 = <<>> /\ s2 = <<>> /\ s3 = <<>>
    /\ syllable = <<>> /\ nyr_to_eng = <<>> /\ text = <<>>
    /\ passes = 0 /\ i = 1 /\ tokens = <<>> /\ syl_out = None /\ syl_check = None
    /\ auto = TRUE /\ result = None
    /\ ParIdle

\* check_similarity(word, threshold) over the lexicon
CheckSimilarity ==
    /\ pc = "similarity"
    /\ \E thr \in Thresholds :
           /\ threshold' = thr
           /\ out' = check_similarity(word, thr, dictionary)
    /\ pc' = "compared"
    /\ UNCHANGED <<word, syllable, nyr_to_eng, text, passes, i, tokens, syl_out, syl_check,
                   auto, result, s1, s2, s3, dictionary>>
    /\ UNCHANGED parVars

\* check_derived_collisions() over the lexicon
CheckDerivedCollisions ==
    /\ pc = "collisions"
    /\ out' = check_derived_collisions(dictionary)
    /\ pc' = "derived"
    /\ UNCHANGED <<word, syllable, nyr_to_eng, text, passes, i, tokens, syl_out, syl_check,
                   auto, result, s1, s2, s3, dictionary, threshold>>
    /\ UNCHANGED parVars

NextLex ==
    \/ CheckSimilarity
    \/ CheckDerivedCollisions

SpecLex == InitLex /\ [][NextLex]_vars

\* ---------------------------------------- sentence-validator.py, translator.py
\* These two files are stored in plain UTF-8: a letter is one codepoint
\* (U0101 long a, U00E6 ae, U0161 s-caron, U021B t-comma, U00F1 n-tilde,
\* U012B long i, U0252 turned alpha, U0153 oe, U014D long o, U0113 long e,
\* U0259 schwa).

\* s.endswith(p)
EndsWith(s, p) == Len(p) <= Len(s) /\ SubSeq(s, Len(s) - Len(p) + 1, Len(s)) = p

\* the suffix tables, <<suffix, meaning>> in dictionary order
CASE_SUFFIXES ==
    << <<<<"a", "U0161">>, "accusative">>, <<<<"U0161", "a", "r">>, "genitive">>,
       <<<<"i", "U021B">>, "dative">>, <<<<"e", "k">>, "instrumental">>,
       <<<<"U00F1", "e", "n">>, "locative">>, <<<<"U0252", "r">>, "ablative">>,
       <<<<"U021B", "i">>, "vocative">>, <<<<"z", "U0252", "U021B">>, "privative">> >>

ASPECT_SUFFIXES ==
    << <<<<"a", "r", "e", "k">>, "completed">>, <<<<"i", "r", "U00E6", "n">>, "ongoing">>,
       <<<<"a", "n", "e", "U021B">>, "habitual">>, <<<<"a", "U021B", "a", "r">>, "potential">> >>

GENDER_SUFFIXES ==
    << <<<<"U00F1", "U012B">>, "feminine">>,
       <<<<"a", "U00F1", "U012B">>, "feminine (with bridge)">>,
       <<<<"U00E6", "n">>, "masculine">> >>

MOOD_SUFFIXES ==
    << <<<<"U021B", "i", "r", "U00E6">>, "imperative">>,
       <<<<"h", "U0101", "l", "i">>, "optative">>,
       <<<<"w", "U0252", "U021B">>, "conditional">> >>

PRONOUNS ==
    {<<"f", "U0101">>, <<"g", "U00E6">>, <<"U0161", "U0101">>,
     <<"f", "U0101", "r", "i">>, <<"f", "U0101", "r", "U0101">>,
     <<"g", "U00E6", "r", "i">>, <<"g", "U00E6", "r", "U0101">>,
     <<"U0161", "U0101", "r", "i">>, <<"U0161", "U0101", "r", "U0101">>,
     <<"U0161", "U0153">>, <<"U0161", "U0252">>, <<"k", "w", "U00E6">>,
     <<"h", "U0153", "r">>}

\* the table is tried in dictionary order
SortedLongestFirst_Unsorted(items) == items

\* sorted(table.keys(), key=len, reverse=True): longest first, and the
\* dictionary order kept among suffixes of one length
RECURSIVE LongestFirstFrom(_, _)
LongestFirstFrom(items, n) ==
    IF n = 0 THEN <<>>
    ELSE SelectSeq(items, LAMBDA e : Len(e[1]) = n) \o LongestFirstFrom(items, n - 1)

SortedLongestFirst(items) == LongestFirstFrom(items, 4)

\* one 'for suffix in sorted(...)' loop with its break: st is <<word, suffixes_found>>
RECURSIVE StripOne(_, _)
StripOne(st, sorted) ==
    IF sorted = <<>> THEN st
    ELSE LET suffix == Head(sorted)[1]
         IN  IF EndsWith(st[1], suffix)
             THEN <<SubSeq(st[1], 1, Len(st[1]) - Len(suffix)),
                    Append(st[2], [suffix |-> suffix, meaning |-> Head(sorted)[2]])>>
             ELSE StripOne(st, Tail(sorted))

INTERFIX == [suffix |-> <<"-", "w", "-">>, meaning |-> "interfix"]

\* word.replace('w', '', 1)
RECURSIVE ReplaceFirst(_, _)
ReplaceFirst(s, c) ==
    IF s = <<>> THEN <<>>
    ELSE IF Head(s) = c THEN Tail(s)
    ELSE <<Head(s)>> \o ReplaceFirst(Tail(s), c)

\* the interfix at the end of the word is left in place
EndInterfix_Kept(st) == st

\* if word.endswith('w') and len(word) > 2
EndInterfix(st) ==
    IF EndsWith(st[1], <<"w">>) /\ Len(st[1]) > 2
    THEN <<SubSeq(st[1], 1, Len(st[1]) - 1), <<INTERFIX>> \o st[2]>>
    ELSE st

\* if 'w' in word and len(word) > 2: the pronoun with a 'w' inside
PronounInterfix(st) ==
    IF Contains(st[1], <<"w">>) /\ Len(st[1]) > 2
    THEN LET possible_root == ReplaceFirst(st[1], "w")
         IN  IF possible_root \in PRONOUNS
             THEN <<possible_root, <<INTERFIX>> \o st[2]>>
             ELSE st
    ELSE st

\* strip_suffixes(word) -> (root, suffixes_found)
strip_suffixes(w) ==
    LET a == StripOne(<<w, <<>>>>, SortedLongestFirst(ASPECT_SUFFIXES))
        m == StripOne(a, SortedLongestFirst(MOOD_SUFFIXES))
        c == StripOne(m, SortedLongestFirst(CASE_SUFFIXES))
        g == StripOne(c, SortedLongestFirst(GENDER_SUFFIXES))
    IN  PronounInterfix(EndInterfix(g))

\* translator.py: the vowel characters of is_vowel(char)
TRANSLATOR_VOWELS ==
    {"a", "e", "i", "o", "u", "U0101", "U0113", "U012B", "U014D", "U016B", "U00E6",
     "U0252", "U025B", "U0259", "U0153", "U01E3", "U0304"}

\* translator.is_vowel(char): char.lower() in the vowel set
translator_is_vowel(char) == LowerChar(char) \in TRANSLATOR_VOWELS

\* translator.apply_interfix(base, suffix)
apply_interfix(base, suffix) ==
    IF base = <<>> \/ suffix = <<>> THEN base \o suffix
    ELSE IF translator_is_vowel(base[Len(base)]) /\ translator_is_vowel(suffix[1])
    THEN base \o <<"w">> \o suffix
    ELSE base \o suffix

\* POSSESSIVE_PREFIXES.keys(), in dictionary order
POSSESSIVE_PREFIXES ==
    << <<<<"f", "U0101">>, "my/I">>, <<<<"g", "U00E6">>, "your/you">>,
       <<<<"U0161", "U0101">>, "his/her/it">>, <<<<"f", "U0101", "r", "i">>, "our/we">>,
       <<<<"g", "U00E6", "r", "i">>, "your (pl)">>,
       <<<<"U0161", "U0101", "r", "i">>, "their/they">> >>

VOICE_MARKERS == << <<<<"r", "U014D", "n">>, "passive">> >>

CONJUNCTIONS ==
    {<<"U0259", "d", "a">>, <<"m", "u", "r">>, <<"w", "U0252">>, <<"U021B", "U0252">>,
     <<"z", "U014D", "n">>, <<"z", "U0113", "n">>}

POSTPOSITIONS == {<<"a", "U00F1">>}

QUESTION_PARTICLE == <<"k", "a">>

\* the keys of a suffix table as a set
Keys(table) == {table[k][1] : k \in 1..Len(table)}

\* build_word_set that keeps one spelling per lower-case form, the last one
build_word_set_LastSpelling(words) ==
    {words[k].nyrakai : k \in {j \in 1..Len(words) :
        \A h \in (j + 1)..Len(words) : Lower(words[h].nyrakai) # Lower(words[j].nyrakai)}}

\* build_word_set(data): every surface form and its lower-case form
build_word_set(words) ==
    {words[k].nyrakai : k \in 1..Len(words)} \cup {Lower(words[k].nyrakai) : k \in 1..Len(words)}

\* x in dictionary_words or x.lower() in dictionary_words
InWords(x, dictionary_words) == x \in dictionary_words \/ Lower(x) \in dictionary_words

\* the 'pronoun + interfix + case' and 'pronoun + case' patterns
PronounWithCase(w) ==
    \E pronoun \in PRONOUNS :
        /\ StartsWith(w, pronoun)
        /\ LET remainder == SubSeq(w, Len(pronoun) + 1, Len(w))
           IN  \/ /\ StartsWith(remainder, <<"w">>)
                  /\ Tail(remainder) \in Keys(CASE_SUFFIXES)
               \/ remainder \in Keys(CASE_SUFFIXES)

\* the prefix is taken off whenever the remainder's root is in the lexicon
StripsPrefix_RemainderOnly(w, prefix, dictionary_words) ==
    /\ StartsWith(w, prefix) /\ Len(w) > Len(prefix)
    /\ InWords(strip_suffixes(SubSeq(w, Len(prefix) + 1, Len(w)))[1], dictionary_words)

\* the test of the possessive loop for one prefix
StripsPrefix(w, prefix, dictionary_words) ==
    /\ StartsWith(w, prefix) /\ Len(w) > Len(prefix)
    /\ LET potential_remainder == SubSeq(w, Len(prefix) + 1, Len(w))
           potential_root == strip_suffixes(potential_remainder)[1]
           original_root == strip_suffixes(w)[1]
       IN  /\ original_root \notin dictionary_words
           /\ Lower(original_root) \notin dictionary_words
           /\ InWords(potential_root, dictionary_words)

\* the possessive loop: <<possessive_prefix, word>>, <<>> standing for None
RECURSIVE PossessiveLoop(_, _, _)
PossessiveLoop(w, prefixes, dictionary_words) ==
    IF prefixes = <<>> THEN << <<>>, w >>
    ELSE LET prefix == Head(prefixes)[1]
         IN  IF StripsPrefix(w, prefix, dictionary_words)
             THEN <<prefix, SubSeq(w, Len(prefix) + 1, Len(w))>>
             ELSE PossessiveLoop(w, Tail(prefixes), dictionary_words)

\* the voice-marker loop finds a lexicon word in front of the marker
VoiceMarked(root, dictionary_words) ==
    \E k \in 1..Len(VOICE_MARKERS) :
        LET marker == VOICE_MARKERS[k][1]
        IN  /\ Contains(root, marker)
            /\ Len(Split(root, marker)) = 2
            /\ InWords(Split(root, marker)[1], dictionary_words)

\* root.replace('w', '')
RemoveAll(s, c) == SelectSeq(s, LAMBDA x : x /= c)

\* sentence-validator.validate_word(word, dictionary_words): the returned
\* (is_valid, issues) with the locals possessive_prefix and root
sentence_validate_word(original, dictionary_words) ==
    LET has_negation == StartsWith(original, <<"z", "a">>)
        w == IF has_negation THEN SubSeq(original, 3, Len(original)) ELSE original
        closed == [valid |-> TRUE, issues |-> <<>>, possessive_prefix |-> <<>>,
                   word |-> w, root |-> <<>>]
    IN  IF w \in PRONOUNS THEN closed
        ELSE IF PronounWithCase(w) THEN closed
        ELSE IF w \in CONJUNCTIONS THEN closed
        ELSE IF w \in POSTPOSITIONS THEN closed
        ELSE IF w = QUESTION_PARTICLE THEN closed
        ELSE LET poss == PossessiveLoop(w, SortedLongestFirst(POSSESSIVE_PREFIXES),
                                        dictionary_words)
                 root == strip_suffixes(poss[2])[1]
                 found == \/ VoiceMarked(root, dictionary_words)
                          \/ InWords(root, dictionary_words)
                          \/ InWords(original, dictionary_words)
                          \/ /\ Contains(root, <<"w">>)
                             /\ InWords(RemoveAll(root, "w"), dictionary_words)
             IN  [valid |-> found,
                  issues |-> IF found THEN <<>>
                             ELSE <<[kind |-> "Unknown word or root", root |-> root,
                                     from |-> original]>>,
                  possessive_prefix |-> poss[1],
                  word |-> poss[2],
                  root |-> root]

\* ------------------------------------------ inputs of the morpheme analysis
za == <<"z", "a">>

Stems == {<<"d", "a">>, <<"D", "a">>, <<"k">>, <<"k", "w", "a">>}

\* bases given to apply_interfix: the pronouns and the stems
Bases == PRONOUNS \cup Stems

AllSuffixes ==
    Keys(ASPECT_SUFFIXES) \cup Keys(MOOD_SUFFIXES) \cup Keys(CASE_SUFFIXES)
    \cup Keys(GENDER_SUFFIXES)

\* words given to strip_suffixes: a stem with up to two suffixes of any
\* category in any order and an interfix or not, and a stem with a gender, a
\* case, a mood and an aspect suffix in that order
SuffixWords ==
    {st \o a \o b : st \in {<<"d", "a">>, <<"d", "a", "w">>, <<"k", "w", "U00E6", "w">>},
                    a \in AllSuffixes \cup {<<>>}, b \in AllSuffixes \cup {<<>>}}
    \cup {<<"d", "a">> \o g \o c \o m \o a :
             g \in Keys(GENDER_SUFFIXES), c \in {<<"a", "U0161">>, <<"U021B", "i">>},
             m \in {<<"h", "U0101", "l", "i">>}, a \in Keys(ASPECT_SUFFIXES)}

\* words given to the sentence-level validate_word
SentWords ==
    {neg \o pre \o st \o suf :
        neg \in {<<>>, za},
        pre \in {<<>>, <<"f", "U0101">>, <<"U0161", "U0101">>, <<"f", "U0101", "r", "i">>},
        st \in {<<"d", "a">>, <<"D", "a">>, <<"k">>},
        suf \in {<<>>, <<"a", "U0161">>, <<"w", "a", "U0161">>}}
    \cup {<<"f", "U0101">>, <<"m", "u", "r">>, <<"k", "a">>, <<"a", "U00F1">>,
          <<"d", "u", "r", "r", "U014D", "n">>, <<"d", "w", "a">>}

\* surface forms of the lexicons given to it
SentForms ==
    {<<"d", "a">>, <<"D", "a">>, <<"k">>, <<"U0161", "U0101", "k">>,
     <<"f", "U0101", "d", "a">>, <<"d", "u", "r">>}

SentEntries == {Entry(f, "gloss", TRUE, <<>>) : f \in SentForms}

InitSent ==
    /\ \/ /\ pc = "base"
          /\ s1 \in Bases /\ s2 \in Keys(CASE_SUFFIXES) \cup {<<>>}
          /\ word = <<>>
          /\ dictionary = <<>>
       \/ /\ pc = "surface"
          /\ s1 = <<>> /\ s2 = <<>>
          /\ word \in SuffixWords
          /\ dictionary = <<>>
       \/ /\ pc = "sentence"
          /\ s1 = <<>> /\ s2 = <<>>
          /\ word \in SentWords
          /\ dictionary \in SeqsUpTo(SentEntries, MaxEntries)
    /\ s3 = <<>>
    /\ threshold = 2
    /\ out = None
    /\ syllable = <<>> /\ nyr_to_eng = <<>> /\ text = <<>>
    /\ passes = 0 /\ i = 1 /\ tokens = <<>> /\ syl_out = None /\ syl_check = None
    /\ auto = TRUE /\ result = None
    /\ ParIdle

\* translator.apply_interfix(base, suffix) makes the surface form
ApplyInterfix ==
    /\ pc = "base"
    /\ word' = apply_interfix(s1, s2)
    /\ pc' = "surface"
    /\ UNCHANGED <<syllable, nyr_to_eng, text, passes, i, tokens, syl_out, syl_check,
                   auto, result, s1, s2, s3, dictionary, threshold, out>>
    /\ UNCHANGED parVars

\* strip_suffixes(word)
StripSuffixes ==
    /\ pc = "surface"
    /\ out' = [root |-> strip_suffixes(word)[1], suffixes_found |-> strip_suffixes(word)[2]]
    /\ pc' = "stripped"
    /\ UNCHANGED <<word, syllable, nyr_to_eng, text, passes, i, tokens, syl_out, syl_check,
                   auto, result, s1, s2, s3, dictionary, threshold>>
    /\ UNCHANGED parVars

\* validate_word(word, build_word_set(data)) of the sentence validator
ValidateSentenceWord ==
    /\ pc = "sentence"
    /\ out' = sentence_validate_word(word, build_word_set(dictionary))
    /\ pc' = "analysed"
    /\ UNCHANGED <<word, syllable, nyr_to_eng, text, passes, i, tokens, syl_out, syl_check,
                   auto, result, s1, s2, s3, dictionary, threshold>>
    /\ UNCHANGED parVars

\* the same validate_word call on a lexicon that has one more entry
ValidateWithLargerLexicon ==
    /\ pc = "analysed"
    /\ \E e \in SentEntries :
           /\ dictionary' = Append(dictionary, e)
           /\ out' = [before |-> out,
                      after |-> sentence_validate_word(word, build_word_set(dictionary'))]
    /\ pc' = "reanalysed"
    /\ UNCHANGED <<word, syllable, nyr_to_eng, text, passes, i, tokens, syl_out, syl_check,
                   auto, result, s1, s2, s3, threshold>>
    /\ UNCHANGED parVars

NextSent ==
    \/ ApplyInterfix
    \/ StripSuffixes
    \/ ValidateSentenceWord
    \/ ValidateWithLargerLexicon

SpecSent == InitSent /\ [][NextSent]_vars

\* ------------------------------------------- syllabify, one turn at a time
\* longest token list handed to syllabify
MaxTokens == 4

\* tokens of the lists handed to syllabify: consonants, a vowel, the glottal
\* marker, an unknown token and a fused glottal vowel
LoopTokens == {<<"d">>, <<"r">>, <<"a">>, <<"'">>, <<"x">>, <<"'", "a">>}

TokenLists == SeqsUpTo(LoopTokens, MaxTokens)

\* the locals of syllabify before the while loop
LoopStart == [syllables |-> <<>>, errors |-> <<>>, current |-> <<>>, i |-> 1]

\* SyllabifyTurn whose vowel branch never takes the following consonant
SyllabifyTurn_NeverCoda(toks, l) ==
    IF is_vowel(toks[l.i])
    THEN LET glot == l.i + 1 <= Len(toks) /\ is_glottal_coda(toks[l.i + 1])
             last == IF glot THEN l.i + 1 ELSE l.i
         IN  [syllables |-> Append(l.syllables, l.current \o SubSeq(toks, l.i, last)),
              errors |-> l.errors, current |-> <<>>, i |-> last + 1]
    ELSE IF is_consonant(toks[l.i])
    THEN [l EXCEPT !.current = Append(l.current, toks[l.i]), !.i = l.i + 1]
    ELSE IF is_glottal_coda(toks[l.i])
    THEN [l EXCEPT !.errors = Append(l.errors,
                                     Err("Unexpected glottal marker position", toks[l.i])),
                   !.i = l.i + 1]
    ELSE [l EXCEPT !.errors = Append(l.errors, Err("Unknown token", toks[l.i])),
                   !.i = l.i + 1]

\* one turn of the while loop of syllabify on the locals l
SyllabifyTurn(toks, l) ==
    IF is_vowel(toks[l.i])
    THEN LET s == SyllableAt(toks, l.i, l.current)
         IN  [syllables |-> Append(l.syllables, s.syl), errors |-> l.errors,
              current |-> <<>>, i |-> s.last + 1]
    ELSE IF is_consonant(toks[l.i])
    THEN [l EXCEPT !.current = Append(l.current, toks[l.i]), !.i = l.i + 1]
    ELSE IF is_glottal_coda(toks[l.i])
    THEN [l EXCEPT !.errors = Append(l.errors,
                                     Err("Unexpected glottal marker position", toks[l.i])),
                   !.i = l.i + 1]
    ELSE [l EXCEPT !.errors = Append(l.errors, Err("Unknown token", toks[l.i])),
                   !.i = l.i + 1]

\* SyllabifyRest that drops the remaining consonants without an error
SyllabifyRest_Silent(l) ==
    IF l.current # <<>> /\ \E k \in 1..Len(l.current) : is_vowel(l.current[k])
    THEN [syllables |-> Append(l.syllables, l.current), errors |-> l.errors]
    ELSE [syllables |-> l.syllables, errors |-> l.errors]

\* the handling of the remaining consonants after the loop, and the return
SyllabifyRest(l) ==
    IF l.current # <<>>
    THEN IF (\E k \in 1..Len(l.current) :
                 is_consonant(l.current[k]) \/ is_glottal_coda(l.current[k]))
            /\ ~ (\E k \in 1..Len(l.current) : is_vowel(l.current[k]))
         THEN [syllables |-> l.syllables,
               errors |-> Append(l.errors, Err("Syllable without vowel", Concat(l.current)))]
         ELSE [syllables |-> Append(l.syllables, l.current), errors |-> l.errors]
    ELSE [syllables |-> l.syllables, errors |-> l.errors]

\* a process that calls syllabify on a token list
InitSyl ==
    /\ tokens \in TokenLists
    /\ pc = "syl-call"
    /\ syl_out = None
    /\ word = <<>> /\ syllable = <<>> /\ nyr_to_eng = <<>>
    /\ text = <<>>
    /\ passes = 0
    /\ i = 1
    /\ syl_check = None
    /\ auto = TRUE
    /\ result = None
    /\ s1 = <<>> /\ s2 = <<>> /\ s3 = <<>>
    /\ dictionary = <<>>
    /\ threshold = 2
    /\ out = None
    /\ ParIdle

\* syllabify(tokens): entry, the empty list returns at once
SyllabifyCall ==
    /\ pc = "syl-call"
    /\ IF tokens = <<>>
       THEN /\ syl_out' = [syllables |-> <<>>, errors |-> <<Err("Empty word", <<>>)>>]
            /\ pc' = "syl-done"
       ELSE /\ syl_out' = LoopStart
            /\ pc' = "syl-loop"
    /\ UNCHANGED <<word, syllable, nyr_to_eng, text, passes, i, tokens, syl_check, auto,
                   result>>
    /\ UNCHANGED toolVars
    /\ UNCHANGED parVars

\* one turn of the while loop
SyllabifyStep ==
    /\ pc = "syl-loop"
    /\ syl_out.i <= Len(tokens)
    /\ syl_out' = SyllabifyTurn(tokens, syl_out)
    /\ UNCHANGED <<word, syllable, nyr_to_eng, pc, text, passes, i, tokens, syl_check, auto,
                   result>>
    /\ UNCHANGED toolVars
    /\ UNCHANGED parVars

\* the loop is over: remaining consonants, return syllables, errors
SyllabifyReturn ==
    /\ pc = "syl-loop"
    /\ syl_out.i > Len(tokens)
    /\ syl_out' = SyllabifyRest(syl_out)
    /\ pc' = "syl-done"
    /\ UNCHANGED <<word, syllable, nyr_to_eng, text, passes, i, tokens, syl_check, auto,
                   result>>
    /\ UNCHANGED toolVars
    /\ UNCHANGED parVars

NextSyl == SyllabifyCall \/ SyllabifyStep \/ SyllabifyReturn

SpecSyl == InitSyl /\ [][NextSyl]_vars

\* ------------------------------------------------- the dictionary file
\* most add_word calls of one process
MaxAdds == 2

RECURSIVE PutVariants(_, _, _)
\* for variant in variants: the variant and its lower-case form
PutVariants(m, variants, eng) ==
    IF variants = <<>> THEN m
    ELSE PutVariants(Put(Put(m, Strip(Head(variants)), eng),
                         Lower(Strip(Head(variants))), eng),
                     Tail(variants), eng)

\* one iteration of the loop of load_dictionary_words
LoadEntry(m, entry) ==
    LET nyr == entry.nyrakai
        eng == entry.english
    IN  IF Contains(nyr, <<" ", "/", " ">>)
        THEN Put(PutVariants(m, Split(nyr, <<" ", "/", " ">>), eng), nyr, eng)
        ELSE IF nyr # <<>>
        THEN Put(Put(m, nyr, eng), Lower(nyr), eng)
        ELSE m

RECURSIVE LoadFrom(_, _)
LoadFrom(words, m) ==
    IF words = <<>> THEN m ELSE LoadFrom(Tail(words), LoadEntry(m, Head(words)))

\* load_dictionary_words(): the nyr_to_eng dict built from the file
load_dictionary_words(words) == LoadFrom(words, <<>>)

\* an entry of the "words" list of the file
WordEntry(nyrakai, english, phonemes, syllables, structure) ==
    [nyrakai |-> nyrakai, english |-> english, pos |-> "noun", is_root |-> TRUE,
     etymology |-> <<>>, phonemes |-> phonemes, syllables |-> syllables,
     structure |-> structure]

\* the first loop of add_word: the word or its normalized form is stored
FormTaken(words, nyrakai, normalized) ==
    \E k \in 1..Len(words) :
        words[k].nyrakai = nyrakai \/ words[k].nyrakai = normalized

\* GlossTaken that compares the glosses as they are written
GlossTaken_CaseSensitive(words, english) ==
    \E k \in 1..Len(words) : words[k].english = english

\* the second loop of add_word: the gloss is stored, whatever its case
GlossTaken(words, english) ==
    \E k \in 1..Len(words) : Lower(words[k].english) = Lower(english)

\* add_word(nyrakai, english, 'noun') on the file contents words, in a process
\* whose _NYR_TO_ENG is cache: the returned dict and the file afterwards
add_word(nyrakai, english, cache, words) ==
    LET validation == validate_word(nyrakai, TRUE, cache)
        entry == WordEntry(validation.normalized, english, validation.phonemes,
                           validation.syllables,
                           JoinWith(validation.syllable_structures, <<".">>))
        failure(error) == [ret |-> [success |-> FALSE, error |-> error, entry |-> <<>>],
                           words |-> words]
    IN  IF ~ validation.valid THEN failure("Invalid word")
        ELSE IF FormTaken(words, nyrakai, validation.normalized)
        THEN failure("Nyrakai word already exists in dictionary")
        ELSE IF GlossTaken(words, english)
        THEN failure("English meaning already has a Nyrakai word")
        ELSE [ret |-> [success |-> TRUE, error |-> "", entry |-> <<entry>>],
              words |-> Append(words, entry)]

\* words given to add_word and to validate_word; r d has no vowel
AddForms == {<<"d", "a">>, <<"D", "a">>, <<"a">>, <<"r", "d">>}

\* glosses given to add_word
AddGlosses == {<<"d">>, <<"D">>, <<"a">>}

\* entries of the file before the process starts
StoredEntries ==
    {WordEntry(<<"d", "a">>, <<"d">>, <<>>, <<>>, <<>>),
     WordEntry(<<"D", "a">>, <<"a">>, <<>>, <<>>, <<>>),
     WordEntry(<<"D", "a", " ", "/", " ", "a">>, <<"D">>, <<>>, <<>>, <<>>)}

\* no two entries have the same stored form
UniqueForms(words) ==
    \A j, k \in 1..Len(words) : words[j].nyrakai = words[k].nyrakai => j = k

\* no two entries have the same gloss, whatever its case
UniqueGlosses(words) ==
    \A j, k \in 1..Len(words) : Lower(words[j].english) = Lower(words[k].english) => j = k

\* files with unique stored forms and unique glosses
StoredDictionaries ==
    {d \in SeqsUpTo(StoredEntries, MaxEntries) : UniqueForms(d) /\ UniqueGlosses(d)}

\* a process that has imported validator.py: _NYR_TO_ENG is loaded from the file
InitAdd ==
    /\ pc = "imported"
    /\ dictionary \in StoredDictionaries
    /\ nyr_to_eng = load_dictionary_words(dictionary)
    /\ word = <<>>
    /\ result = None
    /\ out = None
    /\ threads = <<>> /\ batch = NoBatch /\ adds = <<>>
    /\ syllable = <<>> /\ text = <<>> /\ passes = 0 /\ i = 1 /\ tokens = <<>>
    /\ syl_out = None /\ syl_check = None /\ auto = TRUE
    /\ s1 = <<>> /\ s2 = <<>> /\ s3 = <<>> /\ threshold = 2

\* add_word(nyrakai, english, 'noun'): validation, the two loops over the
\* file, the append and the save; adds is the log of the calls that returned
AddWord ==
    /\ pc = "imported"
    /\ Len(adds) < MaxAdds
    /\ \E nyrakai \in AddForms, english \in AddGlosses :
           \E r \in {add_word(nyrakai, english, nyr_to_eng, dictionary)} :
               /\ dictionary' = r.words
               /\ out' = r.ret
               /\ adds' = Append(adds, [nyrakai |-> nyrakai, english |-> english,
                                        success |-> r.ret.success])
    /\ UNCHANGED <<word, syllable, nyr_to_eng, pc, text, passes, i, tokens, syl_out,
                   syl_check, auto, result, s1, s2, s3, threshold, threads, batch>>

\* validate_word(w) in the same process
ValidateInProcess ==
    /\ pc = "imported"
    /\ \E w \in AddForms :
           /\ word' = w
           /\ result' = validate_word(w, TRUE, nyr_to_eng)
    /\ UNCHANGED <<syllable, nyr_to_eng, pc, text, passes, i, tokens, syl_out, syl_check,
                   auto, s1, s2, s3, dictionary, threshold, out>>
    /\ UNCHANGED parVars

NextAdd == AddWord \/ ValidateInProcess

SpecAdd == InitAdd /\ [][NextAdd]_vars

\* ------------------------------------------ the thread pools of the batch tool
\* longest list given to parallel_validate and parallel_generate
MaxBatch == 2

MAX_WORKERS == 5

\* words given to parallel_validate, and suggestions returned by generate_words
PoolWords == {<<"d", "a">>, <<"a">>, <<"r", "d">>}

\* len(result) of the dict returned by validate_word
KeyCount(r) ==
    8 + (IF r.is_variant THEN 1 ELSE 0) + (IF r.has_domain THEN 3 ELSE 0)
      + (IF r.exists_in_dictionary # "absent" THEN 1 ELSE 0)
      + (IF r.exists_in_dictionary = "True" THEN 1 ELSE 0)

\* a task submitted to the executor: fn(arg); word is the argument of its
\* validate_word call, seen the _NYR_TO_ENG it read, ret the dict returned by
\* validate_word, exc whether the task raised
Task(fn, arg) ==
    [fn |-> fn, arg |-> arg, word |-> <<>>, pc |-> "queued", seen |-> <<>>, ret |-> None,
     exc |-> FALSE, collected |-> FALSE]

Running == {t \in 1..Len(threads) : threads[t].pc \in {"called", "looked"}}

\* the batch tool has imported validator.py and calls parallel_validate(words)
\* or parallel_generate(words)
InitPool ==
    /\ pc = "pool"
    /\ dictionary \in {d \in StoredDictionaries : Len(d) <= 1}
    /\ nyr_to_eng = load_dictionary_words(dictionary)
    /\ batch \in {[NoBatch EXCEPT !.pc = "called", !.fn = fn, !.words = ws] :
                     fn \in {"parallel_validate", "parallel_generate"},
                     ws \in SeqsUpTo(PoolWords, MaxBatch)}
    /\ threads = <<>>
    /\ adds = <<>>
    /\ word = <<>> /\ result = None /\ out = None
    /\ syllable = <<>> /\ text = <<>> /\ passes = 0 /\ i = 1 /\ tokens = <<>>
    /\ syl_out = None /\ syl_check = None /\ auto = TRUE
    /\ s1 = <<>> /\ s2 = <<>> /\ s3 = <<>> /\ threshold = 2

poolFrame ==
    <<word, syllable, pc, text, passes, i, tokens, syl_out, syl_check, auto, result,
      toolVars, adds>>

\* executor.submit(fn, w) for w in words
Submit ==
    /\ batch.pc = "called"
    /\ threads' = [k \in 1..Len(batch.words) |->
                      Task(IF batch.fn = "parallel_validate" THEN "validate_single"
                           ELSE "generate_single_word", batch.words[k])]
    /\ batch' = [batch EXCEPT !.pc = "collecting"]
    /\ UNCHANGED <<nyr_to_eng, poolFrame>>

\* a worker takes the task: validate_single calls validate_word(word);
\* generate_single_word gets a suggestion from generate_words and calls
\* validate_word on its normalized form
TaskStart ==
    \E t \in 1..Len(threads) :
        /\ threads[t].pc = "queued"
        /\ Cardinality(Running) < MAX_WORKERS
        /\ \E suggestion \in PoolWords :
               threads' = [threads EXCEPT
                   ![t].pc = "called",
                   ![t].word = IF threads[t].fn = "validate_single" THEN threads[t].arg
                               ELSE normalize(suggestion)]
        /\ UNCHANGED <<nyr_to_eng, batch, poolFrame>>

\* TaskLookup of a validator that memoises the looked-up word in _NYR_TO_ENG
TaskLookup_Memoize ==
    \E t \in 1..Len(threads) :
        /\ threads[t].pc = "called"
        /\ threads' = [threads EXCEPT ![t].pc = "looked", ![t].seen = nyr_to_eng]
        /\ nyr_to_eng' = Put(nyr_to_eng, threads[t].word, <<"?">>)
        /\ UNCHANGED <<batch, poolFrame>>

\* the task reads _NYR_TO_ENG in word_exists_in_dictionary; nothing is written
TaskLookup ==
    \E t \in 1..Len(threads) :
        /\ threads[t].pc = "called"
        /\ threads' = [threads EXCEPT ![t].pc = "looked", ![t].seen = nyr_to_eng]
        /\ UNCHANGED <<nyr_to_eng, batch, poolFrame>>

\* validate_word returns; validate_single unpacks the dict into four names,
\* which raises ValueError unless the dict has four keys
TaskReturn ==
    \E t \in 1..Len(threads) :
        /\ threads[t].pc = "looked"
        /\ LET r == validate_word(threads[t].word, TRUE, threads[t].seen)
           IN  threads' = [threads EXCEPT
                   ![t].pc = "done",
                   ![t].ret = r,
                   ![t].exc = threads[t].fn = "validate_single" /\ KeyCount(r) # 4]
        /\ UNCHANGED <<nyr_to_eng, batch, poolFrame>>

\* one turn of the as_completed loop: future.result() of a finished task, in
\* any order.  A dict of four keys unpacks to its keys, and the first key is a
\* non-empty string.
Collect ==
    \E t \in 1..Len(threads) :
        /\ batch.pc = "collecting"
        /\ threads[t].pc = "done" /\ ~ threads[t].collected
        /\ threads' = [threads EXCEPT ![t].collected = TRUE]
        /\ IF batch.fn = "parallel_validate"
           THEN IF threads[t].exc
                THEN batch' = [batch EXCEPT !.pc = "unwinding"]
                ELSE batch' = [batch EXCEPT !.valid = Append(@, [word |-> threads[t].arg])]
           ELSE IF threads[t].ret.valid
                THEN batch' = [batch EXCEPT
                         !.generated = Append(@, [english |-> threads[t].arg,
                                                  nyrakai |-> threads[t].word])]
                ELSE batch' = [batch EXCEPT
                         !.errors = Append(@, [word |-> threads[t].arg,
                                               error |-> "No suggestions"])]
        /\ UNCHANGED <<nyr_to_eng, poolFrame>>

\* the end of the with block: the executor waits for its tasks, then the
\* function returns results or the exception of future.result() propagates
PoolExit ==
    /\ \A t \in 1..Len(threads) : threads[t].pc = "done"
    /\ \/ /\ batch.pc = "collecting"
          /\ \A t \in 1..Len(threads) : threads[t].collected
          /\ batch' = [batch EXCEPT !.pc = "returned"]
       \/ /\ batch.pc = "unwinding"
          /\ batch' = [batch EXCEPT !.pc = "raised"]
    /\ UNCHANGED <<nyr_to_eng, threads, poolFrame>>

NextPool ==
    \/ Submit
    \/ TaskStart
    \/ TaskLookup
    \/ TaskReturn
    \/ Collect
    \/ PoolExit

SpecPool == InitPool /\ [][NextPool]_vars

\* ---------------------------------------------------------------- claims

\* C1: every validate_word call returns a result record, and in it valid is
\* false exactly when the errors list is non-empty.
C1_ValidIffNoErrors ==
    pc = "validated" =>
        /\ result.valid \in BOOLEAN
        /\ result.valid <=> (Len(result.errors) = 0)

\* a ' / ' input with an unrecognized character was validated and rejected
C1_Witness ==
    /\ pc = "validated"
    /\ result.is_variant
    /\ ~ result.valid
    /\ \E k \in 1..Len(result.errors) : result.errors[k].kind = "Invalid phoneme"

\* C2 as stated: a word without forbidden sequence that has both an
\* unrecognized phoneme and a structural violation gets both kinds of error.
C2_BothKindsReported ==
    (/\ pc = "validated"
     /\ ~ result.is_variant
     /\ ~ \E k \in 1..(Len(result.normalized) - 1) :
            /\ result.normalized[k] \in {"^", "'"}
            /\ result.normalized[k + 1] = (IF result.normalized[k] = "^" THEN "'" ELSE "a")
     /\ \E k \in 1..Len(result.phonemes) :
            LET t == result.phonemes[k]
            IN  ~ (t \in ALL_VALID \/ is_glottal_vowel(t) \/ is_glottal_coda(t)
                   \/ t \in DIPHTHONGS_LONG_COMBINING)
     /\ LET sy == syllabify(result.phonemes)
        IN  \/ \E k \in 1..Len(sy.errors) : sy.errors[k].kind # "Unknown token"
            \/ \E k \in 1..Len(sy.syllables) : ~ validate_syllable(sy.syllables[k]).valid)
    => /\ \E k \in 1..Len(result.errors) : result.errors[k].kind = "Invalid phoneme"
       /\ \E k \in 1..Len(result.errors) : result.errors[k].kind # "Invalid phoneme"

\* C2 as amended: an unrecognized phoneme short-circuits the structural
\* checks (the errors are one invalid-phoneme error per unrecognized token and
\* nothing else, and no syllable is produced), and so does a syllabification
\* error; once syllables are produced, the errors of every invalid syllable
\* are all in the result.
C2_ShortCircuits ==
    (/\ pc = "validated"
     /\ ~ result.is_variant
     /\ ~ \E k \in 1..(Len(result.normalized) - 1) :
            /\ result.normalized[k] \in {"^", "'"}
            /\ result.normalized[k + 1] = (IF result.normalized[k] = "^" THEN "'" ELSE "a"))
    => LET unknown == {k \in 1..Len(result.phonemes) :
                          LET t == result.phonemes[k]
                          IN  ~ (t \in ALL_VALID \/ is_glottal_vowel(t) \/ is_glottal_coda(t)
                                 \/ t \in DIPHTHONGS_LONG_COMBINING)}
           sy == syllabify(result.phonemes)
       IN  /\ unknown # {} =>
                /\ Len(result.errors) = Cardinality(unknown)
                /\ \A k \in 1..Len(result.errors) : result.errors[k].kind = "Invalid phoneme"
                /\ result.syllables = <<>>
           /\ (unknown = {} /\ sy.errors # <<>>) =>
                /\ result.errors = sy.errors
                /\ result.syllables = <<>>
           /\ (unknown = {} /\ sy.errors = <<>>) =>
                /\ Len(result.syllables) = Len(sy.syllables)
                /\ \A k \in 1..Len(sy.syllables) :
                       LET e == validate_syllable(sy.syllables[k]).errors
                       IN  \A j \in 1..Len(e) :
                               \E m \in 1..Len(result.errors) : result.errors[m] = e[j]

\* a word with two unrecognized tokens and a consonant that has no vowel was
\* rejected with the two invalid-phoneme errors only
C2_Witness ==
    /\ pc = "validated"
    /\ ~ result.is_variant
    /\ result.phonemes = <<<<"x">>, <<"x">>, <<"d">>>>
    /\ Len(result.errors) = 2
    /\ result.syllables = <<>>

\* C3: a non-variant word whose normalized form contains ^' or 'a is rejected
\* with exactly one error, the forbidden-sequence error, and with empty
\* syllables and syllable_structures.
C3_ForbiddenSequenceOnly ==
    (/\ pc = "validated"
     /\ ~ result.is_variant
     /\ \E k \in 1..(Len(result.normalized) - 1) :
            \/ result.normalized[k] = "^" /\ result.normalized[k + 1] = "'"
            \/ result.normalized[k] = "'" /\ result.normalized[k + 1] = "a")
    => /\ ~ result.valid
       /\ Len(result.errors) = 1
       /\ result.errors[1].kind \in {"Ejective marker ^ cannot precede glottal marker '",
                                     "Glottal marker ' cannot precede 'a'"}
       /\ result.syllables = <<>>
       /\ result.syllable_structures = <<>>

\* a word with an unrecognized character followed by 'a was rejected with the
\* single forbidden-sequence error
C3_Witness ==
    /\ pc = "validated"
    /\ result.normalized = <<"x", "'", "a">>
    /\ Len(result.errors) = 1
    /\ result.errors[1].kind = "Glottal marker ' cannot precede 'a'"

\* C4 as stated: for every input the syllables returned by
\* syllabify(tokenize(normalize(x))) concatenate to the tokens.
C4_SyllablesPartitionTokens ==
    pc = "syllabified" => Concat(syl_out.syllables) = tokens

\* C4 as amended: whenever syllabify reports no error its syllables
\* concatenate to the tokens; tokens left out of the syllables (a trailing
\* consonant run without vowel, an orphan glottal marker, an unknown token)
\* always come with an error.
C4_PartitionUnlessError ==
    pc = "syllabified" =>
        (syl_out.errors = <<>> => Concat(syl_out.syllables) = tokens)

\* a word was split into a syllable with a glottal coda and a second syllable
C4_Witness ==
    /\ pc = "syllabified"
    /\ syl_out.errors = <<>>
    /\ Len(syl_out.syllables) = 2
    /\ \E k \in 1..Len(tokens) : tokens[k] = <<"'">>

\* C5: normalize is idempotent: a normalize call on the output of normalize
\* returns its argument.
C5_NormalizeIdempotent ==
    [][(pc = "normalized" /\ pc' = "normalized" /\ passes' = passes + 1) => text' = text]_vars

\* C6: every token list that validate_syllable accepts has an onset of 0 to 2
\* tokens, a consonant coda of 0 or 1 token and a structure string with as
\* many characters as the list has tokens.
C6_ValidSyllableShape ==
    (pc = "checked" /\ syl_check.valid) =>
        LET st == syl_check.structure
            v == CHOOSE k \in 1..Len(st) : st[k] = "V"
            after == SubSeq(st, v + 1, Len(st))
        IN  /\ \E k \in 1..Len(st) : st[k] = "V"
            /\ v - 1 \in 0..2
            /\ Len(SelectSeq(after, LAMBDA c : c = "C")) \in 0..1
            /\ Len(st) = Len(syllable)

\* C7: on a syllable whose onset is two consonants (c1, c2), the
\* invalid-cluster error is reported iff c2 is not in the Cluster Table entry
\* of c1 and c1 is neither ejective nor affricate; d r a C is valid, 'CCVC'.
C7_ClusterRule ==
    (/\ pc = "checked"
     /\ Len(syllable) >= 3
     /\ is_consonant(syllable[1]) /\ is_consonant(syllable[2]) /\ is_vowel(syllable[3]))
    => LET c1 == syllable[1]
           c2 == syllable[2]
       IN  /\ (\E k \in 1..Len(syl_check.errors) :
                   syl_check.errors[k].kind = "Invalid consonant cluster")
               <=> (/\ ~ (c1 \in VALID_CLUSTERS_KEYS /\ c2 \in VALID_CLUSTERS(c1))
                    /\ c1 \notin EJECTIVES
                    /\ c1 \notin AFFRICATES)
           /\ (/\ Len(syllable) = 4 /\ c1 = <<"d">> /\ c2 = <<"r">>
               /\ is_consonant(syllable[4]))
              => /\ syl_check.valid
                 /\ syl_check.structure = <<"C", "C", "V", "C">>

\* the syllable d r a d was checked and found valid
C7_Witness ==
    /\ pc = "checked"
    /\ syllable = <<<<"d">>, <<"r">>, <<"a">>, <<"d">>>>
    /\ syl_check.valid
    /\ syl_check.structure = <<"C", "C", "V", "C">>

\* C8 as stated: at a glottal marker the tokenizer emits the fused token and
\* advances by 2 iff the next codepoint is a vowel-class symbol, and otherwise
\* emits the standalone marker and advances by 1.
C8_GlottalStep ==
    [][(pc = "tokenize" /\ pc' = "tokenize" /\ text[i] = "'") =>
          IF i + 1 <= Len(text) /\ is_vowel(<<text[i + 1]>>)
          THEN tokens' = Append(tokens, <<"'", text[i + 1]>>) /\ i' = i + 2
          ELSE tokens' = Append(tokens, <<"'">>) /\ i' = i + 1]_vars

\* C8 as amended: as stated, except that a marker directly followed by the
\* combining macron U+0304 is taken with it as one two-codepoint token by the
\* earlier combining-macron rule (advance 2).  No standalone marker token is
\* ever emitted in front of a vowel-class codepoint.
C8_GlottalStepMacron ==
    [][(pc = "tokenize" /\ pc' = "tokenize" /\ text[i] = "'") =>
          /\ IF i + 1 <= Len(text) /\ is_vowel(<<text[i + 1]>>)
             THEN tokens' = Append(tokens, <<"'", text[i + 1]>>) /\ i' = i + 2
             ELSE IF i + 1 <= Len(text) /\ text[i + 1] = "U0304"
             THEN tokens' = Append(tokens, <<"'", "U0304">>) /\ i' = i + 2
             ELSE tokens' = Append(tokens, <<"'">>) /\ i' = i + 1
          /\ (tokens'[Len(tokens')] = <<"'">>) =>
                 ~ (i' <= Len(text) /\ is_vowel(<<text[i']>>))]_vars

\* the marker between two vowels was fused with the second vowel
C8_Witness ==
    /\ pc = "tokenized"
    /\ text = <<"a", "'", "i">>
    /\ tokens = <<<<"a">>, <<"'", "i">>>>

\* C9: a ' / ' input is valid iff every variant is valid on its own, and its
\* errors are the errors of the invalid variants, in order, each prefixed
\* with its variant.
C9_VariantsConjunction ==
    (pc = "validated" /\ result.is_variant) =>
        LET pieces == Split(word, <<" ", "/", " ">>)
            v == [k \in 1..Len(pieces) |-> Strip(pieces[k])]
            own == [k \in 1..Len(v) |-> validate_word(v[k], auto, nyr_to_eng)]
            bad == {k \in 1..Len(v) : ~ own[k].valid}
        IN  /\ result.valid <=> (bad = {})
            /\ \A m \in 1..Len(result.errors) :
                   \E k \in bad : \E j \in 1..Len(own[k].errors) :
                       result.errors[m] = [own[k].errors[j] EXCEPT !.pre = <<v[k]>>]
            /\ \A k \in bad : \A j \in 1..Len(own[k].errors) :
                   \E m \in 1..Len(result.errors) :
                       result.errors[m] = [own[k].errors[j] EXCEPT !.pre = <<v[k]>>]
            /\ Len(result.errors) = Len(Concat([k \in 1..Len(v) |->
                                        IF k \in bad THEN own[k].errors ELSE <<>>]))

\* 'a / x': the first variant is valid, the second is not
C9_Witness ==
    /\ pc = "validated"
    /\ word = <<"a", " ", "/", " ", "x">>
    /\ ~ result.valid
    /\ Len(result.errors) = 1
    /\ result.errors[1].pre = <<<<"x">>>>

\* C10: the lexicon never changes the verdict: with any other lexicon the
\* same call returns the same valid flag and the same errors, and everything
\* else but the warnings and the exists-in-dictionary annotation is the same.
C10_LexiconOnlyWarns ==
    pc = "validated" =>
        \A other \in Lexicons :
            LET r == validate_word(word, auto, other)
            IN  /\ r.valid = result.valid
                /\ r.errors = result.errors
                /\ [r EXCEPT !.warnings = <<>>, !.exists_in_dictionary = "absent",
                             !.existing_meaning = None]
                   = [result EXCEPT !.warnings = <<>>, !.exists_in_dictionary = "absent",
                                    !.existing_meaning = None]

\* a valid word that is in the lexicon was validated and annotated
C10_Witness ==
    /\ pc = "validated"
    /\ result.valid
    /\ result.exists_in_dictionary = "True"
    /\ \E k \in 1..Len(result.warnings) : result.warnings[k].kind = "Word already exists"

\* C11: validate_word annotates its result with the onset's domain and with
\* the exists-in-lexicon flag only on success: a result with valid = FALSE
\* carries neither the domain fields nor the exists_in_dictionary field.
C11_AnnotatedOnlyOnSuccess ==
    (pc = "validated" /\ ~ result.valid) =>
        /\ ~ result.has_domain
        /\ result.exists_in_dictionary = "absent"

\* the Levenshtein distance by its defining recurrence: the least number of
\* single-character insertions, deletions and substitutions turning a into b
RECURSIVE Levenshtein(_, _)
Levenshtein(a, b) ==
    IF Len(a) = 0 THEN Len(b)
    ELSE IF Len(b) = 0 THEN Len(a)
    ELSE Min3(Levenshtein(Tail(a), b) + 1,
              Levenshtein(a, Tail(b)) + 1,
              Levenshtein(Tail(a), Tail(b)) + (IF Head(a) = Head(b) THEN 0 ELSE 1))

\* C12: edit_distance(a, b) equals the standard Levenshtein distance for all
\* strings a and b, the empty string and the swapped case len(a) < len(b)
\* included.
C12_IsLevenshtein ==
    pc = "measured" =>
        /\ out.ab = Levenshtein(s1, s2)
        /\ out.ba = Levenshtein(s2, s1)

\* a shorter non-empty first argument was measured against a longer second one
C12_Witness ==
    /\ pc = "measured"
    /\ s1 = <<"a", "d">> /\ s2 = <<"d", "a", "d">>
    /\ out.ab = 1

\* C13: edit_distance is symmetric, edit_distance(a, b) = edit_distance(b, a).
C13_Symmetric ==
    pc = "measured" => out.ab = out.ba

\* two different strings of different lengths were measured both ways round
C13_Witness ==
    /\ pc = "measured"
    /\ s1 = <<"a">> /\ s2 = <<"d", "d">>
    /\ out.ab = 2 /\ out.ba = 2

\* C14: edit_distance satisfies the triangle inequality,
\* edit_distance(a, c) <= edit_distance(a, b) + edit_distance(b, c).
C14_Triangle ==
    pc = "measured" => out.ac <= out.ab + out.bc

\* a triple on which the inequality is tight with three different strings
C14_Witness ==
    /\ pc = "measured"
    /\ s1 = <<"a", "a">> /\ s2 = <<"a", "d">> /\ s3 = <<"d", "d">>
    /\ out.ab = 1 /\ out.bc = 1 /\ out.ac = 2

\* the surface forms of the lexicon, ' / ' entries expanded into their parts
ExpandedForms(words) ==
    UNION {{VariantsOf(words[k].nyrakai)[n] : n \in 1..Len(VariantsOf(words[k].nyrakai))} :
              k \in 1..Len(words)}

RootAndUnrelatedZa(words) ==
    /\ Len(words) = 2
    /\ \E a, b \in 1..2 :
          /\ a /= b
          /\ words[a].is_root
          /\ words[a].nyrakai /= <<>>
          /\ ~ Contains(words[a].nyrakai, <<" ", "/", " ">>)
          /\ words[b].nyrakai = <<"z", "a">> \o words[a].nyrakai
          /\ words[b].derived_from = <<>>
          /\ words[b].english /= words[a].english

\* C16: check_derived_collisions over a lexicon consisting of a root X and an
\* unrelated entry 'za' + X without provenance reports exactly one accidental
\* collision: collision_count = 1 and intentional_count = 0.
C16_OneAccidentalCollision ==
    (pc = "derived" /\ RootAndUnrelatedZa(dictionary)) =>
        /\ out.collision_count = 1
        /\ out.intentional_count = 0
        /\ out.collisions[1].affix = <<"z", "a">>
        /\ out.collisions[1].type = "prefix"

\* the lexicon <<'da' (root, "give"), 'zada' ("refuse", no provenance)>> was checked
C16_Witness ==
    /\ pc = "derived"
    /\ dictionary = <<Entry(X, "give", TRUE, <<>>),
                      Entry(<<"z", "a">> \o X, "refuse", FALSE, <<>>)>>
    /\ out.collision_count = 1
    /\ out.collisions[1].derived = <<"z", "a", "d", "a">>

\* the parts of a surface form as a set
VariantSet(nyr) == {VariantsOf(nyr)[n] : n \in 1..Len(VariantsOf(nyr))}

\* the entries whose surface form (or one of its ' / ' parts) is form
EntriesFor(words, form) == {k \in 1..Len(words) : form \in VariantSet(words[k].nyrakai)}

\* the entry a synthesized form is looked up to: the last one with that form
TargetOf(words, form) ==
    words[CHOOSE k \in EntriesFor(words, form) : \A n \in EntriesFor(words, form) : n <= k]

\* the (root entry, affix) pairs that check_derived_collisions synthesizes
Synthesized(words) ==
    {<<words[k], "prefix", PREFIXES[n], PREFIXES[n] \o words[k].nyrakai>> :
        k \in {m \in 1..Len(words) : /\ words[m].is_root /\ words[m].nyrakai /= <<>>
                                     /\ ~ Contains(words[m].nyrakai, <<" ", "/", " ">>)},
        n \in 1..Len(PREFIXES)}
    \cup
    {<<words[k], "suffix", SUFFIXES[n], words[k].nyrakai \o SUFFIXES[n]>> :
        k \in {m \in 1..Len(words) : /\ words[m].is_root /\ words[m].nyrakai /= <<>>
                                     /\ ~ Contains(words[m].nyrakai, <<" ", "/", " ">>)},
        n \in 1..Len(SUFFIXES)}

\* the record of the synthesized form s is in list
Listed(list, s) ==
    \E k \in 1..Len(list) :
        /\ list[k].type = s[2] /\ list[k].root = s[1].nyrakai
        /\ list[k].root_meaning = s[1].english
        /\ list[k].affix = s[3] /\ list[k].derived = s[4]

\* the target records a provenance with the synthesizing root and either the
\* synthesizing affix or a gender-variant surface form
ProvenanceMatches(target, s) ==
    /\ target.derived_from /= <<>>
    /\ target.derived_from[1].root = s[1].nyrakai
    /\ \/ target.derived_from[1].affix = s[3]
       \/ Contains(target.nyrakai, <<" ", "/", " ">>)

\* C17 as stated: every synthesized form that is the surface form of an
\* existing entry is in exactly one of the lists collisions and intentional,
\* and in intentional iff the target's provenance has the synthesizing root
\* and either the synthesizing affix or a gender-variant target.
C17_EveryHitListedOnce ==
    pc = "derived" =>
        \A s \in Synthesized(dictionary) :
            EntriesFor(dictionary, s[4]) /= {} =>
                LET target == TargetOf(dictionary, s[4])
                IN  /\ Listed(out.collisions, s) /= Listed(out.intentional, s)
                    /\ Listed(out.intentional, s) <=> ProvenanceMatches(target, s)

\* C17 as amended: a synthesized form counts as a hit only when the entry
\* with that surface form has a gloss different from the root's; every such
\* hit is in exactly one of the two lists, in intentional iff the provenance
\* matches as above, and collision_count and intentional_count count the two
\* lists.  A form whose target has the root's gloss, or no target, is in
\* neither list.
C17_DifferentGlossHitListedOnce ==
    pc = "derived" =>
        /\ \A s \in Synthesized(dictionary) :
              IF /\ EntriesFor(dictionary, s[4]) /= {}
                 /\ TargetOf(dictionary, s[4]).english /= s[1].english
              THEN LET target == TargetOf(dictionary, s[4])
                   IN  /\ Listed(out.collisions, s) /= Listed(out.intentional, s)
                       /\ Listed(out.intentional, s) <=> ProvenanceMatches(target, s)
              ELSE ~ Listed(out.collisions, s) /\ ~ Listed(out.intentional, s)
        /\ \A k \in 1..Len(out.collisions) :
              \E s \in Synthesized(dictionary) :
                  Listed(<<out.collisions[k]>>, s)
        /\ \A k \in 1..Len(out.intentional) :
              \E s \in Synthesized(dictionary) :
                  Listed(<<out.intentional[k]>>, s)
        /\ out.collision_count = Len(out.collisions)
        /\ out.intentional_count = Len(out.intentional)

\* root 'da' and the gender-variant entry 'dari / dar..' recorded as derived
\* from 'da' with the affix 'ri': both parts are classified intentional,
\* the second on root identity alone
C17_Witness ==
    /\ pc = "derived"
    /\ Len(dictionary) = 2
    /\ dictionary[1] = Entry(X, "give", TRUE, <<>>)
    /\ Contains(dictionary[2].nyrakai, <<" ", "/", " ">>)
    /\ dictionary[2].derived_from = <<[root |-> X, affix |-> <<"r", "i">>]>>
    /\ out.intentional_count = 2
    /\ out.collision_count = 0
    /\ out.intentional[2].affix /= <<"r", "i">>

\* the longest member of the suffix set S that w ends with, <<>> if none
LongestAtEnd(S, w) ==
    IF \E s \in S : EndsWith(w, s)
    THEN CHOOSE s \in S : /\ EndsWith(w, s)
                          /\ \A t \in S : EndsWith(w, t) => Len(t) <= Len(s)
    ELSE <<>>

\* w without its last Len(s) characters
CutEnd(w, s) == SubSeq(w, 1, Len(w) - Len(s))

\* the suffixes_found entries other than the interfix
NonInterfix(found) == SelectSeq(found, LAMBDA e : e.suffix /= <<"-", "w", "-">>)

\* C18: strip_suffixes removes suffixes in the order aspect, mood, case,
\* gender, each step testing the end of what the previous step left; in each
\* category at most one suffix is removed, the longest that matches.  The
\* result names at most four non-interfix suffixes, in that category order,
\* the interfix entries standing in front of them.
C18_FixedOrderLongestFirst ==
    pc = "stripped" =>
        LET a == LongestAtEnd(Keys(ASPECT_SUFFIXES), word)
            w1 == CutEnd(word, a)
            m == LongestAtEnd(Keys(MOOD_SUFFIXES), w1)
            w2 == CutEnd(w1, m)
            c == LongestAtEnd(Keys(CASE_SUFFIXES), w2)
            w3 == CutEnd(w2, c)
            g == LongestAtEnd(Keys(GENDER_SUFFIXES), w3)
            w4 == CutEnd(w3, g)
            expected == SelectSeq(<<a, m, c, g>>, LAMBDA s : s /= <<>>)
            found == NonInterfix(out.suffixes_found)
            n == Len(out.suffixes_found) - Len(found)
        IN  /\ [k \in 1..Len(found) |-> found[k].suffix] = expected
            /\ Len(found) <= 4
            /\ \A k \in 1..Len(out.suffixes_found) :
                  (out.suffixes_found[k].suffix = <<"-", "w", "-">>) <=> k <= n
            /\ n \in 0..2
            /\ Len(out.root) = Len(w4) - n
            /\ n = 0 => out.root = w4

\* 'da' + gender (the longer of two matching members) + case + mood + aspect
\* was stripped back to 'da', the four suffixes named in the order of removal
C18_Witness ==
    /\ pc = "stripped"
    /\ word = <<"d", "a">> \o <<"a", "U00F1", "U012B">> \o <<"a", "U0161">>
                \o <<"h", "U0101", "l", "i">> \o <<"a", "r", "e", "k">>
    /\ out.root = <<"d", "a">>
    /\ [k \in 1..Len(out.suffixes_found) |-> out.suffixes_found[k].suffix]
         = << <<"a", "r", "e", "k">>, <<"h", "U0101", "l", "i">>, <<"a", "U0161">>,
              <<"a", "U00F1", "U012B">> >>

\* C19: for every pronoun p and every case suffix s, strip_suffixes applied
\* to apply_interfix(p, s), which is p + s with 'w' in between when p ends in
\* a vowel and s begins with one, returns the root p.
C19_PronounCaseRoundTrip ==
    (pc = "stripped" /\ s1 \in PRONOUNS /\ s2 \in Keys(CASE_SUFFIXES)) =>
        /\ word = IF translator_is_vowel(s1[Len(s1)]) /\ translator_is_vowel(s2[1])
                  THEN s1 \o <<"w">> \o s2
                  ELSE s1 \o s2
        /\ out.root = s1

\* the pronoun with a 'w' of its own, made accusative with the interfix and
\* stripped back
C19_Witness ==
    /\ pc = "stripped"
    /\ s1 = <<"k", "w", "U00E6">> /\ s2 = <<"a", "U0161">>
    /\ word = <<"k", "w", "U00E6", "w", "a", "U0161">>
    /\ out.root = <<"k", "w", "U00E6">>

\* the word as the possessive step finds it: the input without its negation prefix
Unnegated(w) == IF StartsWith(w, za) THEN SubSeq(w, 3, Len(w)) ELSE w

\* C20: the sentence-level validate_word strips a possessive prefix only if
\* the suffix-stripped form of the unprefixed word is not in the lexicon,
\* compared also in lower case, and the suffix-stripped form of the remainder
\* after the prefix is; a word whose own suffix-stripped form is a lexicon
\* entry is never analysed as possessive prefix + root.  (The word is the one
\* the possessive step is given, the negation prefix already taken off.)
C20_PossessiveOnlyIfRootUnknown ==
    pc = "analysed" =>
        LET D == build_word_set(dictionary)
            w == Unnegated(word)
            own == strip_suffixes(w)[1]
            prefix == out.possessive_prefix
        IN  /\ prefix /= <<>> =>
                  /\ prefix \in Keys(POSSESSIVE_PREFIXES)
                  /\ StartsWith(w, prefix) /\ Len(w) > Len(prefix)
                  /\ out.word = SubSeq(w, Len(prefix) + 1, Len(w))
                  /\ own \notin D /\ Lower(own) \notin D
                  /\ LET rest == strip_suffixes(out.word)[1]
                     IN  rest \in D \/ Lower(rest) \in D
            /\ (own \in D \/ Lower(own) \in D) => prefix = <<>> /\ out.word = w

\* possessive + 'da' + accusative over a lexicon that has 'da' and not the
\* prefixed form: the prefix is taken off and the root 'da' found
C20_Witness ==
    /\ pc = "analysed"
    /\ word = <<"f", "U0101", "d", "a", "a", "U0161">>
    /\ dictionary = <<Entry(<<"d", "a">>, "gloss", TRUE, <<>>)>>
    /\ out.possessive_prefix = <<"f", "U0101">>
    /\ out.root = <<"d", "a">>
    /\ out.valid

\* C24: validate_syllable rejects every token list with more than one
\* vowel-class token: valid is false and the errors hold a 'Multiple vowels in
\* syllable' entry.
C24_MultipleVowelsRejected ==
    (pc = "checked" /\ Len(SelectSeq(syllable, is_vowel)) > 1) =>
        /\ ~ syl_check.valid
        /\ \E k \in 1..Len(syl_check.errors) :
              syl_check.errors[k].kind = "Multiple vowels in syllable"

\* C25: validate_syllable returns valid = false for every syllable whose onset
\* is two consonants with an ejective second member, whatever the first member.
C25_EjectiveSecondRejected ==
    (pc = "checked"
       /\ LET onset == SplitSyllable(syllable, 1, <<>>, FALSE).onset
          IN  /\ Len(onset) = 2
              /\ Len(onset) < Len(syllable)
              /\ is_consonant(onset[1])
              /\ onset[2] \in EJECTIVES)
        => ~ syl_check.valid

\* the stepwise loop returns what syllabify returns
SyllabifyLoopAgrees ==
    pc = "syl-done" => syl_out = syllabify(tokens)

\* the token pair (c1, c2) is an entry of the Cluster Table
InClusterTable(c1, c2) == c1 \in VALID_CLUSTERS_KEYS /\ c2 \in VALID_CLUSTERS(c1)

\* C22: in a turn of syllabify that takes a nucleus and its optional glottal
\* coda, a directly following consonant c1 goes into the coda of that syllable
\* iff c1 is followed neither by a vowel nor by a consonant c2 with (c1, c2)
\* in the Cluster Table; otherwise the syllable ends before c1, and the next
\* turn puts c1 at the end of the onset being collected.
C22_CodaRule ==
    [][(pc = "syl-loop" /\ syl_out.i <= Len(tokens)) =>
        LET l == syl_out
            n == Len(tokens)
            q == IF l.i + 1 <= n /\ is_glottal_coda(tokens[l.i + 1]) THEN l.i + 1 ELSE l.i
            c1 == tokens[q + 1]
            vowel_next == q + 2 <= n /\ is_vowel(tokens[q + 2])
            cluster_next == q + 2 <= n /\ is_consonant(tokens[q + 2])
                              /\ InClusterTable(c1, tokens[q + 2])
            made == syl_out'.syllables[Len(syl_out'.syllables)]
            in_coda == /\ made = l.current \o SubSeq(tokens, l.i, q + 1)
                       /\ syl_out'.i = q + 2
            left == /\ made = l.current \o SubSeq(tokens, l.i, q)
                    /\ syl_out'.i = q + 1
        IN  /\ (is_vowel(tokens[l.i]) /\ q + 1 <= n /\ is_consonant(tokens[q + 1])) =>
                  /\ Len(syl_out'.syllables) = Len(l.syllables) + 1
                  /\ in_coda <=> (~ vowel_next /\ ~ cluster_next)
                  /\ (vowel_next \/ cluster_next) => left
            /\ (~ is_vowel(tokens[l.i]) /\ is_consonant(tokens[l.i])) =>
                  /\ syl_out'.current = Append(l.current, tokens[l.i])
                  /\ syl_out'.i = l.i + 1
       ]_vars

\* a d r d was split after the nucleus: d r is a table cluster, whatever follows
\* it, and d stays out of the coda
C22_Witness ==
    /\ pc = "syl-loop"
    /\ tokens = <<<<"d">>, <<"a">>, <<"d">>, <<"r">>>>
    /\ syl_out.syllables = <<<<<<"d">>, <<"a">>>>>>
    /\ syl_out.i = 3

\* number of vowel-class tokens in a token list
VowelCount(toks) == Len(SelectSeq(toks, is_vowel))

\* C23: syllabify never drops input silently: when it returns no error, the
\* syllables concatenate to the input tokens and every syllable has exactly one
\* vowel-class token; when a token is in no syllable, there is an error.
C23_NothingDroppedSilently ==
    pc = "syl-done" =>
        /\ syl_out.errors = <<>> =>
              /\ Concat(syl_out.syllables) = tokens
              /\ \A k \in 1..Len(syl_out.syllables) : VowelCount(syl_out.syllables[k]) = 1
        /\ Concat(syl_out.syllables) # tokens => syl_out.errors # <<>>

\* a list of four tokens came back as two syllables without an error
C23_Witness ==
    /\ pc = "syl-done"
    /\ Len(tokens) = 4
    /\ syl_out.errors = <<>>
    /\ Len(syl_out.syllables) = 2

\* a list whose trailing consonants were dropped came back with an error
C23_WitnessDropped ==
    /\ pc = "syl-done"
    /\ Concat(syl_out.syllables) # tokens
    /\ syl_out.syllables # <<>>
    /\ Len(syl_out.errors) = 1

RECURSIVE CanSplit(_)
\* the token list is a concatenation of syllables that validate_syllable accepts
CanSplit(toks) ==
    \/ toks = <<>>
    \/ \E k \in 1..Len(toks) :
          /\ validate_syllable(SubSeq(toks, 1, k)).valid
          /\ CanSplit(SubSeq(toks, k + 1, Len(toks)))

\* C27: for every word of recognized phonemes without a forbidden sequence, if
\* its tokens can be split into consecutive syllables that validate_syllable
\* accepts, then validate_word returns valid = true.
C27_GreedyLosesNoWord ==
    (/\ pc = "validated"
     /\ ~ result.is_variant
     /\ result.phonemes # <<>>
     /\ ~ Contains(result.normalized, <<"^", "'">>)
     /\ ~ Contains(result.normalized, <<"'", "a">>)
     /\ PhonemeErrors(result.phonemes) = <<>>
     /\ CanSplit(result.phonemes))
    => result.valid

\* C30: the sentence-level validate_word is monotone in the lexicon: a word
\* accepted with a lexicon is accepted with every lexicon that has the same
\* entries and more.
C30_MonotoneInLexicon ==
    pc = "reanalysed" => (out.before.valid => out.after.valid)

\* a word accepted as possessive prefix and root with the smaller lexicon was
\* accepted as a whole with the larger one, which knows the whole word
C30_Witness ==
    /\ pc = "reanalysed"
    /\ out.before.valid /\ out.before.possessive_prefix # <<>>
    /\ out.after.valid /\ out.after.possessive_prefix = <<>>
    /\ out.before.root # out.after.root

\* C28: once add_word(w, ...) has returned success, a later validate_word(w)
\* in the same process reports exists_in_dictionary = true with the meaning
\* that was stored.
C28_AddedWordIsFound ==
    [][(pc = "imported" /\ adds' = adds) =>
          \A k \in 1..Len(adds) :
              (adds[k].success /\ adds[k].nyrakai = word') =>
                  /\ result'.exists_in_dictionary = "True"
                  /\ result'.existing_meaning = adds[k].english]_vars

\* C29: from a file with unique stored forms and unique glosses (whatever
\* their case), every file reached by add_word calls has both uniqueness
\* properties, and a call that returns success = false leaves the file as it was.
C29_UniquenessKept ==
    /\ [](UniqueForms(dictionary) /\ UniqueGlosses(dictionary))
    /\ [][(pc = "imported" /\ Len(adds') = Len(adds) + 1 /\ ~ out'.success)
              => dictionary' = dictionary]_vars

\* a call was rejected for its gloss, which differs only in case from a
\* stored one, after a call that added an entry
C29_Witness ==
    /\ Len(adds) = 2
    /\ adds[1].success /\ ~ adds[2].success
    /\ out.error = "English meaning already has a Nyrakai word"
    /\ adds[1].english # adds[2].english
    /\ dictionary[Len(dictionary)].english = adds[1].english

\* C21: validate_word calls made by several worker threads over the same
\* unmodified lexicon each return the result they return when run alone.
C21_ConcurrentCallsAsAlone ==
    \A t \in 1..Len(threads) :
        threads[t].pc = "done" =>
            threads[t].ret = validate_word(threads[t].word, TRUE,
                                           load_dictionary_words(dictionary))

\* two workers looked the same unknown word up before either returned, and
\* both returned
C21_Witness ==
    /\ Len(threads) = 2
    /\ threads[1].pc = "done" /\ threads[2].pc = "done"
    /\ threads[1].word = threads[2].word
    /\ threads[1].seen = threads[2].seen
    /\ threads[1].ret.exists_in_dictionary = "False"

\* number of entries of a result list for the word w
Placed(list, w) == Len(SelectSeq(list, LAMBDA e : e.word = w))

\* C26: parallel_validate(words) completes for any list and, whatever order
\* the threads finish in, places every input word in exactly one of
\* results['valid'] and results['invalid'], in 'valid' exactly when
\* validate_word reports it valid.
C26_EveryWordPlacedOnce ==
    batch.fn = "parallel_validate" =>
        /\ batch.pc # "raised"
        /\ batch.pc = "returned" =>
              \A k \in 1..Len(batch.words) :
                  LET w == batch.words[k]
                      alone == validate_word(w, TRUE, load_dictionary_words(dictionary))
                  IN  /\ Placed(batch.valid, w) + Placed(batch.invalid, w)
                           = Len(SelectSeq(batch.words, LAMBDA x : x = w))
                      /\ Placed(batch.valid, w) > 0 <=> alone.valid
                      /\ Placed(batch.invalid, w) > 0 <=> ~ alone.valid

====
